---- MODULE Spec2Model ----
(***************************************************************************)
(* Ion-beam etching simulator: the outlier-driven refinement loop of       *)
(* AutomaticDataOptimizer (src/core/automatic_data_optimizer.py) and the   *)
(* target etch-depth calculation of IonBeamProcessor                        *)
(* (src/data_processing.py).                                                *)
(*                                                                         *)
(* A scattered sample set is modelled by the sequence of its thickness     *)
(* values (column 2 of the data array), in file order.  Positions are      *)
(* 1-based here, 0-based in the source (numpy).                            *)
(***************************************************************************)
EXTENDS Integers, Sequences, FiniteSets, TLC

VARIABLES
    pc,                   \* where the refinement is: see PcValues
    uniformity_threshold, \* AutomaticDataOptimizer.uniformity_threshold
    file_data,            \* samples of the original thickness file on disk
    true_original_count,  \* self.true_original_count (0: attribute not set)
    all_removed_indices,  \* self.all_removed_indices
    current_data,         \* current_data argument of the latest stage call
    new_data,             \* cleaned_data / new_data handed to the callback
    iteration,            \* iteration argument of the latest IQR stage call
    removed_min_count,    \* removed_min_count argument of the min stage call
    phase,                \* "none", "iqr" or "min": stage entered last
    reason,               \* why the refinement stopped ("" while it runs)
    resims,               \* number of pipeline re-runs started by the callback
    unity,                \* validated_stats['uniformity'] of the latest run (-1: none)
    initial_thickness_map,   \* IonBeamProcessor.initial_thickness_map (<<>>: unset)
    initial_thickness_stats, \* IonBeamProcessor.initial_thickness_stats (<<>>: {})
    target_thickness,        \* IonBeamProcessor.target_thickness
    etching_depth_map,       \* IonBeamProcessor.etching_depth_map (<<>>: None)
    beam_profile,            \* IonBeamProcessor.beam_profile (<<>>: not loaded)
    regularization,          \* regularization argument of calculate_dwell_time
    dwell_time,              \* IonBeamProcessor.dwell_time (<<>>: None)
    transition_width,        \* IonBeamProcessor.transition_width
    velocity_map,            \* IonBeamProcessor.velocity_map (<<>>: None)
    recipe,                  \* rows of the stage recipe file (<<>>: not written)
    simulated_etch_depth,    \* IonBeamProcessor.simulated_etch_depth (<<>>: None)
    validated_thickness_map, \* IonBeamProcessor.validated_thickness_map (<<>>: None)
    validated_file,          \* content of validated_thickness_map.csv (<<>>: none)
    validated_map,           \* the map whose statistics the run reports (<<>>: none)
    synthetic_dwell,         \* the dwell field D0 of a round trip (<<>>: none)
    runs,                    \* pipeline runs completed on this processor
    convolve_result,         \* what the latest convolve_dwell_time() returned (<<>>: not called)
    stats_map,               \* thickness_map argument of calculate_thickness_stats
    stats_mask,              \* self.wafer_mask when the statistics are taken
    stats_result,            \* the dictionary calculate_thickness_stats returned
    grid_size,               \* IonBeamProcessor.grid_size, in units of 0.5 mm (0: no processor)
    resolution,              \* IonBeamProcessor.resolution, in units of 0.5 mm
    axis,                    \* IonBeamProcessor.grid_points of that processor (<<>>: none)
    etching_file,            \* EtchingSimulationUI.etching_file: the original file (<<>>: none)
    true_original_file,      \* AutomaticDataOptimizer.true_original_file (<<>>: attribute not set)
    original_file,           \* original_file argument of the latest stage call (<<>>: none)
    written,                 \* paths of the reduced datasets saved, in order
    table,                   \* the scattered thickness table of a file: header and rows (<<>>: none)
    extend_edge,             \* IonBeamProcessor.extend_edge
    raises,                  \* the interpolation methods that raise on the samples of the table
    wafer_load,              \* what load_wafer_data made of the table (<<>>: not called)
    etching_load,            \* what load_etching_data made of the table (<<>>: not called)
    process_btn,             \* process_btn.isEnabled(): the start button of single-wafer mode
    sim_threads,             \* SimulationThreads executing a pipeline run
    custom_threads,          \* CustomSimulationThreads executing a pipeline run
    started,                 \* threads started so far
    batch_file_list,         \* EtchingSimulationUI.batch_file_list
    current_batch_index,     \* EtchingSimulationUI.current_batch_index
    results_original_file,   \* results['original_etching_file'] handed to the outlier processor last (<<>>: none)
    handovers                \* calls of handle_simulation_completed in batch mode so far

loopVars == <<pc, uniformity_threshold, file_data, true_original_count,
              all_removed_indices, current_data, new_data, iteration,
              removed_min_count, phase, reason, resims, unity>>
depthVars == <<initial_thickness_map, initial_thickness_stats, target_thickness,
               etching_depth_map>>
solveVars == <<beam_profile, regularization, dwell_time, transition_width,
               velocity_map, recipe, simulated_etch_depth,
               validated_thickness_map, validated_file, validated_map,
               synthetic_dwell, runs, convolve_result>>
statsVars == <<stats_map, stats_mask, stats_result>>
gridVars == <<grid_size, resolution, axis>>
loadVars == <<table, extend_edge, raises, wafer_load, etching_load>>
threadVars == <<process_btn, sim_threads, custom_threads, started>>
batchVars == <<batch_file_list, current_batch_index, results_original_file, handovers>>
uiVars == <<statsVars, gridVars, loadVars, threadVars, batchVars>>
nameVars == <<etching_file, true_original_file, original_file, written>>
vars == <<pc, uniformity_threshold, file_data, true_original_count,
          all_removed_indices, current_data, new_data, iteration,
          removed_min_count, phase, reason, resims, unity,
          initial_thickness_map, initial_thickness_stats,
          target_thickness, etching_depth_map,
          beam_profile, regularization, dwell_time, transition_width,
          velocity_map, recipe, simulated_etch_depth,
          validated_thickness_map, validated_file, validated_map,
          synthetic_dwell, runs, convolve_result, uiVars, nameVars>>

----------------------------------------------------------------------------
(* Bounds of the model *)

\* longest exhaustively enumerated sample set
MaxLen == 5
\* largest thickness value of an enumerated sample
MaxVal == 3
\* uniformity results and thresholds range over 0..MaxUnity
MaxUnity == 2
\* a direct call of the minimum-value stage: at most MaxGone samples of the
\* original file are already missing from current_data
MaxGone == 2
\* largest thickness of a grid cell and, plus one, largest target thickness
MaxThk == 3
\* largest etch rate of a beam sample
MaxBeam == 2
\* largest synthetic dwell time, in units of the floor 0.1 / max_speed
MaxDwell == 3
\* significant bits of a floating-point number
MantissaBits == 7
\* the smallest step of a floating-point number is 2^-FracBits
FracBits == 8
\* most pipeline runs on one processor
MaxRuns == 2
\* largest grid size and largest resolution, in units of 0.5 mm
MaxGridSize == 12
MaxResolution == 5
\* most data rows of a thickness table
MaxRows == 4
\* most threads started in one session of the front end
MaxStarts == 4
\* most files of a batch, and most results handed over in a session
MaxBatch == 3
MaxHandovers == 4

(* Program constants *)

\* outlier_removal_stage: "if iteration > 20"
max_iterations == 20
\* minimum_value_removal_stage: max_min_removals = 50
max_min_removals == 50

----------------------------------------------------------------------------
(* Helpers on sequences *)

Range(s) == {s[i] : i \in DOMAIN s}

SeqsUpTo(S, n) == UNION {[1..k -> S] : k \in 0..n}

\* s restricted to the positions in keep, order preserved (numpy boolean
\* mask): the k-th kept sample is the one with k - 1 kept positions before it
MaskSelect(s, keep) ==
    LET dropped == DOMAIN s \ keep
    IN [k \in 1..Cardinality(keep) |->
          s[CHOOSE i \in keep : i - Cardinality({j \in dropped : j < i}) = k]]

\* the elements of the set S of numbers in ascending order (np.where(mask)[0])
AscendingSeq(S) ==
    [k \in 1..Cardinality(S) |->
        CHOOSE x \in S : Cardinality({y \in S : y < x}) = k - 1]

\* k-th smallest element of s, k counted from 0 (sorted(s)[k])
KthSmallest(s, k) ==
    CHOOSE v \in Range(s) :
        /\ Cardinality({i \in DOMAIN s : s[i] < v}) <= k
        /\ k < Cardinality({i \in DOMAIN s : s[i] <= v})

----------------------------------------------------------------------------
(* detect_outliers_iqr: np.percentile with linear interpolation.  With n   *)
(* samples the q-th percentile sits at position q/100 * (n-1) of the       *)
(* sorted values; the fractional part is a multiple of 1/4, so 4*Q1 and    *)
(* 4*Q3 are integers and the bounds are kept multiplied by 8.              *)

\* 4 * np.percentile(thickness_values, 25)
Percentile25x4(s) ==
    LET lo == (Len(s) - 1) \div 4
        r  == (Len(s) - 1) % 4
        a  == KthSmallest(s, lo)
        b  == KthSmallest(s, IF r = 0 THEN lo ELSE lo + 1)
    IN 4 * a + r * (b - a)

\* 4 * np.percentile(thickness_values, 75)
Percentile75x4(s) ==
    LET lo == (3 * (Len(s) - 1)) \div 4
        r  == (3 * (Len(s) - 1)) % 4
        a  == KthSmallest(s, lo)
        b  == KthSmallest(s, IF r = 0 THEN lo ELSE lo + 1)
    IN 4 * a + r * (b - a)

\* 8 * (q1 - 1.5 * iqr)
LowerBound8(s) ==
    LET q1 == Percentile25x4(s)
        q3 == Percentile75x4(s)
    IN 2 * q1 - 3 * (q3 - q1)

\* variant: the upper fence at q3 + 1.0 * iqr
UpperBound8_narrow(s) ==
    LET q1 == Percentile25x4(s)
        q3 == Percentile75x4(s)
    IN 2 * q3 + 2 * (q3 - q1)

\* 8 * (q3 + 1.5 * iqr)
UpperBound8(s) ==
    LET q1 == Percentile25x4(s)
        q3 == Percentile75x4(s)
    IN 2 * q3 + 3 * (q3 - q1)

\* the positions (1-based) of the outliers of s
DetectOutliersIqr(s) ==
    IF Len(s) < 4 THEN {}
    ELSE LET lower_bound == LowerBound8(s)
             upper_bound == UpperBound8(s)
         IN {i \in DOMAIN s : 8 * s[i] < lower_bound \/ 8 * s[i] > upper_bound}

\* count < original_count * 0.8
BelowFloor(count, original_count) == 5 * count < 4 * original_count

\* variant: the gate also fails a uniformity equal to the threshold
UniformityFails_ge(u, threshold) == u >= threshold

\* show_simulation_complete_dialog: unity > self.uniformity_threshold
UniformityFails(u, threshold) == u > threshold

\* on_optimized_simulation_completed: unity > self.uniformity_threshold
StillFails(u, threshold) == u > threshold

\* variant: the cap lets a 51st removal through
MinCapReached_gt(count) == count > max_min_removals

\* removed_min_count >= max_min_removals
MinCapReached(count) == count >= max_min_removals

\* iteration > 20
IterationCapReached(it) == it > max_iterations

\* np.argmin: position of the first minimum
ArgMin(s) == CHOOSE i \in DOMAIN s :
                /\ \A j \in DOMAIN s : s[i] <= s[j]
                /\ \A j \in 1..(i - 1) : s[j] > s[i]

\* the parameters minimum_value_removal_stage declares
MinStageParams == {"self", "current_data", "original_file", "initial_results",
                   "removed_min_count"}

\* the names bound in the body of minimum_value_removal_stage when line 290
\* is evaluated (parameters and assigned locals; the module has no globals
\* besides its imports and the class)
MinStageNames == MinStageParams \cup
    {"max_min_removals", "original_count", "thickness_values", "min_index",
     "min_thickness", "min_coords", "total_removed", "info_msg", "reply",
     "mask", "new_data"}

----------------------------------------------------------------------------
(* File names.  A path is its directory (os.path.dirname), the base name   *)
(* of the file the refinement started from without extension, and the      *)
(* suffixes appended to that name since, in order.                          *)

Path(directory, base_name, suffixes) ==
    [directory |-> directory, base_name |-> base_name, suffixes |-> suffixes]

Suffix(kind, number) == [kind |-> kind, number |-> number]

\* the file named by the caller
base_file_argument(true_file, file) == file

\* self.true_original_file if hasattr(self, 'true_original_file') else original_file
base_file(true_file, file) == IF true_file # <<>> THEN true_file ELSE file

\* generate_optimized_filename(original_file, iteration):
\* {base_name}_error_deleted_{iteration}_time.csv in the directory of base_file
generate_optimized_filename(true_file, file, it) ==
    LET base == base_file(true_file, file)
    IN Path(base.directory, base.base_name,
            base.suffixes \o <<Suffix("error_deleted_time", it)>>)

\* generate_min_removed_filename(original_file, min_count, outlier_rounds)
generate_min_removed_filename(true_file, file, min_count, outlier_rounds) ==
    LET base == base_file(true_file, file)
    IN IF outlier_rounds > 0
       THEN Path(base.directory, base.base_name,
                 base.suffixes \o <<Suffix("error_deleted_time", outlier_rounds),
                                    Suffix("min_removed", min_count)>>)
       ELSE Path(base.directory, base.base_name,
                 base.suffixes \o <<Suffix("min_removed", min_count)>>)

----------------------------------------------------------------------------
(* The stages.  Each is the whole method; the answer to each dialog and   *)
(* the outcome of the save are chosen where the method asks for them.      *)

StageExit(data, removed, why) ==
    /\ pc' = "exit"
    /\ reason' = why
    /\ current_data' = data
    /\ new_data' = new_data
    /\ all_removed_indices' = removed
    /\ resims' = resims
    /\ written' = written

StageRaise(data, removed, why) ==
    /\ pc' = "error"
    /\ reason' = why
    /\ current_data' = data
    /\ new_data' = new_data
    /\ all_removed_indices' = removed
    /\ resims' = resims
    /\ written' = written

\* save_thickness_data(cleaned, new_file_path) has succeeded;
\* self.simulation_callback(new_file_path, cleaned, ...): the re-run starts
StageCallback(data, cleaned, removed, new_file_path) ==
    /\ pc' = "resim"
    /\ reason' = ""
    /\ current_data' = data
    /\ new_data' = cleaned
    /\ all_removed_indices' = removed
    /\ resims' = resims + 1
    /\ written' = Append(written, new_file_path)

\* minimum_value_removal_stage(current_data, original_file, initial_results,
\*                             removed_min_count)
MinimumValueRemovalStage(data, count, orig, removed, file, true_file) ==
    /\ phase' = "min"
    /\ removed_min_count' = count
    /\ iteration' = iteration
    /\ IF MinCapReached(count) THEN StageExit(data, removed, "min_cap")
       ELSE IF BelowFloor(Len(data), orig) THEN StageExit(data, removed, "floor")
       ELSE IF Len(data) = 0 THEN StageExit(data, removed, "no_data")
       ELSE \E reply \in BOOLEAN :
              IF ~reply THEN StageExit(data, removed, "declined")
              ELSE IF "outlier_rounds" \notin MinStageNames
              THEN StageRaise(data, removed, "NameError")
              ELSE \E success \in BOOLEAN :
                     IF ~success THEN StageExit(data, removed, "save_failed")
                     ELSE StageCallback(data,
                              MaskSelect(data, DOMAIN data \ {ArgMin(data)}),
                              removed,
                              generate_min_removed_filename(true_file, file,
                                                            count + 1, iteration))

\* self.minimum_value_removal_stage(current_data, original_file,
\*                                  initial_results, outlier_rounds=iteration)
CallMinStageFromOutlierStage(data, it, orig, removed, file, true_file) ==
    IF "outlier_rounds" \in MinStageParams
    THEN MinimumValueRemovalStage(data, 0, orig, removed, file, true_file)
    ELSE /\ StageRaise(data, removed, "TypeError")
         /\ phase' = "iqr"
         /\ iteration' = it
         /\ removed_min_count' = removed_min_count

\* outlier_removal_stage(current_data, original_file, initial_results, iteration)
OutlierRemovalStage(data, it, orig, removed, file, true_file) ==
    LET outlier_indices == DetectOutliersIqr(data)
        remaining_count == Len(data) - Cardinality(outlier_indices)
        cleaned_data    == MaskSelect(data, DOMAIN data \ outlier_indices)
        ascending       == AscendingSeq(outlier_indices)
        extended        == removed \o [k \in DOMAIN ascending |-> ascending[k] - 1]
        new_file_path   == generate_optimized_filename(true_file, file, it)
        Stay == /\ phase' = "iqr"
                /\ iteration' = it
                /\ removed_min_count' = removed_min_count
    IN IF IterationCapReached(it)
       THEN \E reply \in BOOLEAN :
              IF reply THEN CallMinStageFromOutlierStage(data, it, orig, removed,
                                                         file, true_file)
              ELSE StageExit(data, removed, "iter_cap") /\ Stay
       ELSE IF outlier_indices = {}
       THEN \E reply \in BOOLEAN :
              IF reply THEN CallMinStageFromOutlierStage(data, it, orig, removed,
                                                         file, true_file)
              ELSE StageExit(data, removed, "no_outliers") /\ Stay
       ELSE IF BelowFloor(remaining_count, orig)
       THEN StageExit(data, removed, "floor") /\ Stay
       ELSE \E reply \in BOOLEAN :
              IF ~reply THEN StageExit(data, removed, "declined") /\ Stay
              ELSE \E success \in BOOLEAN :
                     IF ~success
                     THEN StageExit(data, extended, "save_failed") /\ Stay
                     ELSE StageCallback(data, cleaned_data, extended,
                                        new_file_path) /\ Stay

----------------------------------------------------------------------------
(* Sample sets of the original file *)

\* every sample set of at most MaxLen samples with thickness in 1..MaxVal
SmallData == SeqsUpTo(1..MaxVal, MaxLen)

\* the files a pipeline run completes on: interpolation needs 3 samples
SmallFiles == {d \in SmallData : Len(d) >= 3}

\* bulk values 0..bulk-1 followed by tail values chosen so that each IQR
\* round finds exactly the largest remaining value outside the upper bound
Ramp(bulk, tail) ==
    [i \in 1..(bulk + tail) |->
        IF i <= bulk THEN i - 1 ELSE ((3 * (i - 1)) \div 2) + 1]

\* 100 samples: 20 IQR rounds end exactly on the 80 % floor;
\* 99 samples: the 20th round would go below the floor
LongData == {Ramp(80, 20), Ramp(79, 20)}

\* the samples of s in the opposite order
Mirror(s) == [i \in DOMAIN s |-> s[Len(s) + 1 - i]]

\* 10 samples with the two largest values first: two IQR rounds each find
\* the first sample of the set they work on, and end on the 80 % floor
FrontData == {Mirror(Ramp(8, 2))}

DataSets == SmallFiles \cup LongData \cup FrontData

\* the thickness files a refinement starts from
EtchingFiles == {Path("measured", "wafer", <<>>)}

Stopped == pc \in {"done", "exit", "error", "failed"}

----------------------------------------------------------------------------
(* The handlers *)

\* start_automatic_data_optimization(results, callback)
StartAutomaticDataOptimization ==
    \E file_ok \in BOOLEAN :
        IF ~file_ok
        THEN /\ pc' = "failed"
             /\ reason' = "file_unreadable"
             /\ UNCHANGED <<true_original_count, all_removed_indices, current_data,
                            new_data, iteration, removed_min_count, phase, resims>>
             /\ UNCHANGED <<true_original_file, original_file, written>>
        ELSE /\ true_original_file' = etching_file
             /\ true_original_count' = Len(file_data)
             /\ original_file' = etching_file
             /\ OutlierRemovalStage(file_data, 1, Len(file_data), <<>>,
                                    etching_file, etching_file)

\* show_simulation_complete_dialog(results, unity_msg, validated_stats, callback),
\* called when the initial pipeline run has completed with uniformity unity
ShowSimulationCompleteDialog(u) ==
    /\ pc = "initial_sim"
    /\ unity' = u
    /\ IF UniformityFails(u, uniformity_threshold)
       THEN \E reply \in BOOLEAN :
              IF reply THEN StartAutomaticDataOptimization
              ELSE /\ pc' = "done"
                   /\ reason' = "declined"
                   /\ UNCHANGED <<true_original_count, all_removed_indices,
                                  current_data, new_data, iteration,
                                  removed_min_count, phase, resims>>
                   /\ UNCHANGED <<true_original_file, original_file, written>>
       ELSE /\ pc' = "done"
            /\ reason' = "uniformity_met"
            /\ UNCHANGED <<true_original_count, all_removed_indices, current_data,
                           new_data, iteration, removed_min_count, phase, resims>>
            /\ UNCHANGED <<true_original_file, original_file, written>>
    /\ UNCHANGED <<uniformity_threshold, file_data, etching_file>>
    /\ UNCHANGED depthVars
    /\ UNCHANGED solveVars
    /\ UNCHANGED uiVars

\* what the loop does with a re-run whose uniformity still fails: the stage
\* that started the re-run is entered again on the reduced sample set; the
\* file it names as original_file is the first file or the reduced file the
\* re-run read
ReenterStage ==
    \E file \in {etching_file, written[Len(written)]} :
        /\ original_file' = file
        /\ IF phase = "min"
           THEN MinimumValueRemovalStage(new_data, removed_min_count + 1,
                                         true_original_count, all_removed_indices,
                                         file, true_original_file)
           ELSE OutlierRemovalStage(new_data, iteration + 1, true_original_count,
                                    all_removed_indices, file, true_original_file)

\* on_optimized_simulation_completed(results): the re-run has completed
OptimizedSimulationCompleted(u) ==
    /\ pc = "resim"
    /\ unity' = u
    /\ IF StillFails(u, uniformity_threshold)
       THEN ReenterStage
       ELSE /\ pc' = "done"
            /\ reason' = "uniformity_met"
            /\ UNCHANGED <<all_removed_indices, current_data, new_data, iteration,
                           removed_min_count, phase, resims>>
            /\ UNCHANGED <<original_file, written>>
    /\ UNCHANGED <<uniformity_threshold, file_data, true_original_count>>
    /\ UNCHANGED <<etching_file, true_original_file>>
    /\ UNCHANGED depthVars
    /\ UNCHANGED solveVars
    /\ UNCHANGED uiVars

----------------------------------------------------------------------------
(* The refinement loop, from the start of the initial pipeline run *)

DepthIdle ==
    /\ initial_thickness_map = <<>>
    /\ initial_thickness_stats = <<>>
    /\ target_thickness = 0
    /\ etching_depth_map = <<>>

\* no beam loaded, nothing solved, validated or written
SolveIdle ==
    /\ beam_profile = <<>>
    /\ regularization = <<>>
    /\ dwell_time = <<>>
    /\ transition_width = 0
    /\ velocity_map = <<>>
    /\ recipe = <<>>
    /\ simulated_etch_depth = <<>>
    /\ validated_thickness_map = <<>>
    /\ validated_file = <<>>
    /\ validated_map = <<>>
    /\ synthetic_dwell = <<>>
    /\ runs = 0
    /\ convolve_result = <<>>

\* no statistics asked for
StatsIdle ==
    /\ stats_map = <<>>
    /\ stats_mask = {}
    /\ stats_result = <<>>

\* no processor constructed on its own
GridIdle ==
    /\ grid_size = 0
    /\ resolution = 0
    /\ axis = <<>>

\* no table loaded
LoadIdle ==
    /\ table = <<>>
    /\ extend_edge = FALSE
    /\ raises = {}
    /\ wafer_load = <<>>
    /\ etching_load = <<>>

\* the front end as constructed: start button enabled, no run under way
ThreadIdle ==
    /\ process_btn = TRUE
    /\ sim_threads = 0
    /\ custom_threads = 0
    /\ started = 0

\* no batch selected
BatchIdle ==
    /\ batch_file_list = <<>>
    /\ current_batch_index = 0
    /\ results_original_file = <<>>
    /\ handovers = 0

UiIdle ==
    /\ StatsIdle
    /\ GridIdle
    /\ LoadIdle
    /\ ThreadIdle
    /\ BatchIdle

\* no refinement: no file chosen, nothing written
NameIdle ==
    /\ etching_file = <<>>
    /\ true_original_file = <<>>
    /\ original_file = <<>>
    /\ written = <<>>

Init ==
    /\ pc = "initial_sim"
    /\ uniformity_threshold \in 0..MaxUnity
    /\ file_data \in DataSets
    /\ true_original_count = 0
    /\ all_removed_indices = <<>>
    /\ current_data = <<>>
    /\ new_data = <<>>
    /\ iteration = 0
    /\ removed_min_count = 0
    /\ phase = "none"
    /\ reason = ""
    /\ resims = 0
    /\ unity = -1
    /\ etching_file \in EtchingFiles
    /\ true_original_file = <<>>
    /\ original_file = <<>>
    /\ written = <<>>
    /\ DepthIdle
    /\ SolveIdle
    /\ UiIdle

SimulationComplete ==
    \E u \in 0..MaxUnity : ShowSimulationCompleteDialog(u)

ResimulationComplete ==
    \E u \in 0..MaxUnity : OptimizedSimulationCompleted(u)

Next == SimulationComplete \/ ResimulationComplete

Spec == Init /\ [][Next]_vars

----------------------------------------------------------------------------
(* minimum_value_removal_stage called on its own: the arguments are drawn  *)
(* in the initial state and the call is the only step.                     *)

MinCounts == {0, 1, max_min_removals - 1, max_min_removals, max_min_removals + 1}

MinInit ==
    /\ pc = "min_call"
    /\ uniformity_threshold = 0
    /\ current_data \in SmallData
    /\ file_data = <<>>
    /\ true_original_count \in Len(current_data)..(Len(current_data) + MaxGone)
    /\ all_removed_indices = <<>>
    /\ new_data = <<>>
    /\ iteration = 0
    /\ removed_min_count \in MinCounts
    /\ phase = "none"
    /\ reason = ""
    /\ resims = 0
    /\ unity = -1
    /\ etching_file \in EtchingFiles
    /\ true_original_file = etching_file
    /\ original_file = etching_file
    /\ written = <<>>
    /\ DepthIdle
    /\ SolveIdle
    /\ UiIdle

CallMinimumValueRemovalStage ==
    /\ pc = "min_call"
    /\ MinimumValueRemovalStage(current_data, removed_min_count,
                                true_original_count, all_removed_indices,
                                original_file, true_original_file)
    /\ UNCHANGED <<uniformity_threshold, file_data, true_original_count, unity>>
    /\ UNCHANGED <<etching_file, true_original_file, original_file>>
    /\ UNCHANGED depthVars
    /\ UNCHANGED solveVars
    /\ UNCHANGED uiVars

MinNext == CallMinimumValueRemovalStage

SpecMin == MinInit /\ [][MinNext]_vars

----------------------------------------------------------------------------
(* IonBeamProcessor: grid, wafer mask, thickness statistics and the target *)
(* etch depth.  A field is a function on the cells <<row, col>> of the     *)
(* grid.                                                                   *)

\* self.grid_points = np.linspace(-grid_size/2, grid_size/2, point_count),
\* here for grid_size = 2, resolution = 1
grid_points == <<-1, 0, 1>>

\* self.wafer_radius = wafer_diameter / 2
wafer_radius == 1

Cells == (DOMAIN grid_points) \X (DOMAIN grid_points)

\* self.X, self.Y = np.meshgrid(self.grid_points, self.grid_points)
X(c) == grid_points[c[2]]
Y(c) == grid_points[c[1]]

\* self.wafer_mask = self.r_distance <= wafer_radius
wafer_mask == {c \in Cells : X(c) * X(c) + Y(c) * Y(c) <= wafer_radius * wafer_radius}

MinOf(S) == CHOOSE x \in S : \A y \in S : x <= y
MaxOf(S) == CHOOSE x \in S : \A y \in S : x >= y

\* variant: the statistics are taken over the whole grid
StatsCells_all == Cells

\* the cells whose values calculate_thickness_stats reads:
\* wafer_data = thickness_map[self.wafer_mask]
StatsCells == wafer_mask

\* calculate_thickness_stats(thickness_map): min, max and range
calculate_thickness_stats(thickness_map) ==
    LET wafer_data == {thickness_map[c] : c \in StatsCells}
    IN [min   |-> MinOf(wafer_data),
        max   |-> MaxOf(wafer_data),
        range |-> MaxOf(wafer_data) - MinOf(wafer_data)]

RECURSIVE SumOfCells(_, _)
\* the sum of the values of f over the cells of S
SumOfCells(f, S) ==
    IF S = {} THEN 0
    ELSE LET c == CHOOSE x \in S : TRUE
         IN f[c] + SumOfCells(f, S \ {c})

\* variant: the range over the mean, without the factor 2
Uniformity_full(range_val, total, count) ==
    IF total # 0 THEN <<100 * range_val * count, total>> ELSE <<0, 1>>

\* uniformity = 100.0 * range_val / (2 * mean_val) if mean_val != 0 else 0,
\* for mean_val = total / count; the rational <<numerator, denominator>>
Uniformity(range_val, total, count) ==
    IF total # 0 THEN <<100 * range_val * count, 2 * total>> ELSE <<0, 1>>

\* calculate_thickness_stats(thickness_map) with self.wafer_mask = mask: the
\* whole dictionary; mean and uniformity are rationals
ThicknessStats(thickness_map, mask) ==
    IF thickness_map = <<>>
    THEN [min |-> 0, max |-> 0, mean |-> <<0, 1>>, range |-> 0,
          uniformity |-> <<0, 1>>]
    ELSE LET wafer_data == {thickness_map[c] : c \in mask}
             min_val    == MinOf(wafer_data)
             max_val    == MaxOf(wafer_data)
             total      == SumOfCells(thickness_map, mask)
             range_val  == max_val - min_val
         IN [min |-> min_val, max |-> max_val,
             mean |-> <<total, Cardinality(mask)>>,
             range |-> range_val,
             uniformity |-> Uniformity(range_val, total, Cardinality(mask))]

\* variant: the distance from the target
ClampedDepth_abs(thickness, target) ==
    IF thickness > target THEN thickness - target ELSE target - thickness

\* the value calculate_etching_depth gives one cell in its second case:
\* etching_depth = zeros; etching_depth[mask] = initial[mask] - target
ClampedDepth(thickness, target) ==
    IF thickness > target THEN thickness - target ELSE 0

\* calculate_etching_depth(): the new etching_depth_map
calculate_etching_depth(thickness_map, stats, target) ==
    LET initial_min == stats.min
    IN IF target < initial_min
       THEN [c \in Cells |-> thickness_map[c] - target]
       ELSE [c \in Cells |-> ClampedDepth(thickness_map[c], target)]

\* the interpolated thickness grids (positive: load_etching_data raises
\* every value below max(min, 0.01) to it)
ThicknessMaps == [Cells -> 1..MaxThk]

Targets == 0..(MaxThk + 1)

\* IonBeamProcessor.__init__ (the default target is written 0 here)
DepthInit ==
    /\ initial_thickness_map = <<>>
    /\ initial_thickness_stats = <<>>
    /\ target_thickness = 0
    /\ etching_depth_map = <<>>
    /\ pc = "processor"
    /\ uniformity_threshold = 0
    /\ file_data = <<>>
    /\ true_original_count = 0
    /\ all_removed_indices = <<>>
    /\ current_data = <<>>
    /\ new_data = <<>>
    /\ iteration = 0
    /\ removed_min_count = 0
    /\ phase = "none"
    /\ reason = ""
    /\ resims = 0
    /\ unity = -1
    /\ SolveIdle
    /\ UiIdle
    /\ NameIdle

\* set_target_thickness(target)
SetTargetThickness(target) ==
    /\ pc = "processor"
    /\ target_thickness' = target
    /\ etching_depth_map' =
          IF initial_thickness_map = <<>> THEN etching_depth_map
          ELSE calculate_etching_depth(initial_thickness_map,
                                       initial_thickness_stats, target)
    /\ UNCHANGED <<initial_thickness_map, initial_thickness_stats>>
    /\ UNCHANGED loopVars
    /\ UNCHANGED solveVars
    /\ UNCHANGED uiVars
    /\ UNCHANGED nameVars

\* load_etching_data(file_path), thickness_grid being the interpolated grid
LoadEtchingData(thickness_grid) ==
    /\ initial_thickness_map' = thickness_grid
    /\ initial_thickness_stats' = calculate_thickness_stats(thickness_grid)
    /\ etching_depth_map' =
          calculate_etching_depth(thickness_grid,
                                  calculate_thickness_stats(thickness_grid),
                                  target_thickness)
    /\ UNCHANGED target_thickness
    /\ UNCHANGED loopVars
    /\ UNCHANGED solveVars
    /\ UNCHANGED uiVars
    /\ UNCHANGED nameVars

\* run_simulation sets the target on the new processor before the run loads
\* the thickness file
SetTarget ==
    /\ initial_thickness_map = <<>>
    /\ \E target \in Targets : SetTargetThickness(target)

\* a processor loads one file (a re-run replaces the map, the statistics and
\* the depth together, as the first load sets them)
LoadData ==
    /\ pc = "processor"
    /\ initial_thickness_map = <<>>
    /\ \E thickness_grid \in ThicknessMaps : LoadEtchingData(thickness_grid)

DepthNext == SetTarget \/ LoadData

SpecDepth == DepthInit /\ [][DepthNext]_vars

----------------------------------------------------------------------------
(* IonBeamProcessor.calculate_dwell_time: Wiener deconvolution of the etch *)
(* depth by the beam profile.                                              *)
(*                                                                         *)
(* Numbers are exact rationals.  A field with rational values is a record  *)
(* [num, den]: the value of cell c is num[c] / den, den > 0.  The beam     *)
(* profile and the etch depth of a thickness file have integer values.     *)
(* Padded arrays are indexed from 0, as in numpy.                          *)

RECURSIVE SumOver(_, _)
\* the sum of f[x] over the x of the finite set S
SumOver(f, S) ==
    IF S = {} THEN 0
    ELSE LET x == CHOOSE y \in S : TRUE
         IN f[x] + SumOver(f, S \ {x})

Field(num, den) == [num |-> num, den |-> den]

\* a common multiple of two denominators
CommonDen(a, b) == IF a % b = 0 THEN a ELSE IF b % a = 0 THEN b ELSE a * b

\* self.n_pixels = point_count
n_pixels == Len(grid_points)

\* self.max_speed = 500.0 (mm/s)
max_speed == 500

\* pad_size = self.n_pixels // 2
pad_size == n_pixels \div 2

\* side of E_padded and I_padded
PaddedSize == n_pixels + 2 * pad_size

PaddedCells == (0..(PaddedSize - 1)) \X (0..(PaddedSize - 1))

\* np.pad(a, pad_size, mode='constant', constant_values=0)
Pad(a) ==
    [p \in PaddedCells |->
        IF /\ p[1] - pad_size \in 0..(n_pixels - 1)
           /\ p[2] - pad_size \in 0..(n_pixels - 1)
        THEN a[<<p[1] - pad_size + 1, p[2] - pad_size + 1>>]
        ELSE 0]

\* np.roll(a, k) along both axes
Roll(a, k) ==
    [p \in PaddedCells |->
        a[<<(p[1] - k) % PaddedSize, (p[2] - k) % PaddedSize>>]]

\* numpy.fft.ifftshift: roll by -(n // 2)
ifftshift(a) == Roll(a, 0 - (PaddedSize \div 2))

\* numpy.fft.fftshift: roll by n // 2
fftshift(a) == Roll(a, PaddedSize \div 2)

\* the cells where a padded array is not zero
Support(a) == {p \in PaddedCells : a[p] # 0}

\* I_power = np.abs(F_I)**2 has the same value at every frequency exactly
\* when the circular autocorrelation of the kernel vanishes off the origin
FlatPower(I_shifted) ==
    \A x \in PaddedCells \ {<<0, 0>>} :
        \A u \in Support(I_shifted) :
            I_shifted[<<(u[1] + x[1]) % PaddedSize,
                        (u[2] + x[2]) % PaddedSize>>] = 0

\* I_power of a kernel with FlatPower: the sum of the squared samples
I_power(I_shifted) ==
    SumOver([u \in PaddedCells |-> I_shifted[u] * I_shifted[u]],
            Support(I_shifted))

\* ifft2(fft2(E_shifted) * np.conjugate(fft2(I_shifted))): by the correlation
\* theorem, the circular cross-correlation of the two real arrays
CrossCorrelate(E_shifted, I_shifted) ==
    LET S == Support(I_shifted)
    IN [x \in PaddedCells |->
          SumOver([u \in PaddedCells |->
                      E_shifted[<<(x[1] + u[1]) % PaddedSize,
                                  (x[2] + u[2]) % PaddedSize>>] * I_shifted[u]],
                  S)]

\* dwell_padded[pad_size:-pad_size, pad_size:-pad_size]
Unpad(a) == [c \in Cells |-> a[<<c[1] - 1 + pad_size, c[2] - 1 + pad_size>>]]

\* variant: the floor is 0
dwell_min_zero == <<0, 1>>

\* dwell_min = 0.1 / self.max_speed, as the rational <<numerator, denominator>>
dwell_min == <<1, 10 * max_speed>>

\* variant: np.minimum
Maximum_min(f, r) ==
    LET den == CommonDen(f.den, r[2])
    IN Field([c \in Cells |->
                 IF f.num[c] * (den \div f.den) <= r[1] * (den \div r[2])
                 THEN f.num[c] * (den \div f.den)
                 ELSE r[1] * (den \div r[2])], den)

\* np.maximum(f, r) of a field and a rational
Maximum(f, r) ==
    LET den == CommonDen(f.den, r[2])
    IN Field([c \in Cells |->
                 IF f.num[c] * (den \div f.den) >= r[1] * (den \div r[2])
                 THEN f.num[c] * (den \div f.den)
                 ELSE r[1] * (den \div r[2])], den)

\* calculate_dwell_time(regularization) for E = etching_depth_map and
\* I = beam_profile, I having FlatPower; regularization is the rational
\* reg[1] / reg[2] > 0, so epsilon = 1.0 / regularization = reg[2] / reg[1]
\* and I_power + epsilon = (I_power * reg[1] + reg[2]) / reg[1]
calculate_dwell_time(E, I, reg) ==
    LET E_shifted == ifftshift(Pad(E.num))
        I_shifted == ifftshift(Pad(I))
        power     == I_power(I_shifted)
        D_shifted == CrossCorrelate(E_shifted, I_shifted)
        dwell     == Unpad(fftshift(D_shifted))
    IN Maximum(Field([c \in Cells |-> dwell[c] * reg[1]],
                     (power * reg[1] + reg[2]) * E.den),
               dwell_min)

\* the beam profiles of the model: no beam at all, or one sample of etch rate
\* 1..MaxBeam (nm/s) somewhere on the grid; each has FlatPower
ZeroBeam == [c \in Cells |-> 0]

PointBeam(b, rate) == [c \in Cells |-> IF c = b THEN rate ELSE 0]

FlatBeams == {ZeroBeam} \cup {PointBeam(b, rate) : b \in Cells, rate \in 1..MaxBeam}

\* regularization values: the default 1e-3, 1 and 2
Regularizations == {<<1, 1000>>, <<1, 1>>, <<2, 1>>}

\* thickness grids that are uniform but for at most one cell
UniformBut(base, b, v) == [c \in Cells |-> IF c = b THEN v ELSE base]

SolveMaps == {UniformBut(base, b, v) : base \in 1..MaxThk, b \in Cells, v \in 1..MaxThk}

\* a processor that has loaded a thickness file and a beam profile:
\* load_etching_data has set the map, its statistics and the etch depth
SolveInit ==
    /\ pc = "loaded"
    /\ initial_thickness_map \in SolveMaps
    /\ target_thickness \in Targets
    /\ initial_thickness_stats = calculate_thickness_stats(initial_thickness_map)
    /\ etching_depth_map =
          calculate_etching_depth(initial_thickness_map,
                                  calculate_thickness_stats(initial_thickness_map),
                                  target_thickness)
    /\ beam_profile \in FlatBeams
    /\ regularization \in Regularizations
    /\ dwell_time = <<>>
    /\ transition_width = 0
    /\ velocity_map = <<>>
    /\ recipe = <<>>
    /\ simulated_etch_depth = <<>>
    /\ validated_thickness_map = <<>>
    /\ validated_file = <<>>
    /\ validated_map = <<>>
    /\ synthetic_dwell = <<>>
    /\ runs = 0
    /\ convolve_result = <<>>
    /\ uniformity_threshold = 0
    /\ file_data = <<>>
    /\ true_original_count = 0
    /\ all_removed_indices = <<>>
    /\ current_data = <<>>
    /\ new_data = <<>>
    /\ iteration = 0
    /\ removed_min_count = 0
    /\ phase = "none"
    /\ reason = ""
    /\ resims = 0
    /\ unity = -1
    /\ UiIdle
    /\ NameIdle

\* self.calculate_dwell_time(regularization)
CalculateDwellTime ==
    /\ pc = "loaded"
    /\ pc' = "solved"
    /\ dwell_time' = calculate_dwell_time(Field(etching_depth_map, 1),
                                          beam_profile, regularization)
    /\ UNCHANGED <<uniformity_threshold, file_data, true_original_count,
                   all_removed_indices, current_data, new_data, iteration,
                   removed_min_count, phase, reason, resims, unity>>
    /\ UNCHANGED depthVars
    /\ UNCHANGED <<beam_profile, regularization, transition_width, velocity_map,
                   recipe, simulated_etch_depth, validated_thickness_map,
                   validated_file, validated_map, synthetic_dwell, runs,
                   convolve_result>>
    /\ UNCHANGED uiVars
    /\ UNCHANGED nameVars

SolveNext == CalculateDwellTime

SpecSolve == SolveInit /\ [][SolveNext]_vars

----------------------------------------------------------------------------
(* ConvolutionEngine.convolve_matrix (src/convolution_engine.py) and the   *)
(* round trip through it and calculate_dwell_time.  The beam file is as    *)
(* large as the grid.                                                      *)

\* the centre sample of an n_pixels x n_pixels kernel: index size // 2, from 0
KernelCentre == <<n_pixels \div 2 + 1, n_pixels \div 2 + 1>>

\* the value of an array at position p, 0 outside it: mode='constant', cval=0.0
At(a, p) == IF p \in Cells THEN a[p] ELSE 0

\* scipy.ndimage.convolve(input, weights, mode='constant', cval=0.0):
\* output[q] = sum over k of input[q - (k - centre)] * weights[k]
NdiConvolve(input, weights) ==
    LET S == {k \in Cells : weights[k] # 0}
    IN [q \in Cells |->
          SumOver([k \in Cells |->
                      At(input, <<q[1] - (k[1] - KernelCentre[1]),
                                  q[2] - (k[2] - KernelCentre[2])>>) * weights[k]],
                  S)]

\* variant: the profile is used as it is
FlipBoth_none(a) == a

\* np.flipud(np.fliplr(a))
FlipBoth(a) == [c \in Cells |-> a[<<n_pixels + 1 - c[1], n_pixels + 1 - c[2]>>]]

\* convolve_matrix(dwell_matrix, ion_beam_profile)
convolve_matrix(dwell_matrix, ion_beam_profile) ==
    LET kernel == FlipBoth(ion_beam_profile)
    IN Field(NdiConvolve(dwell_matrix.num, kernel), dwell_matrix.den)

\* synthetic dwell fields: the floor 0.1 / max_speed everywhere but for one
\* cell of 1..MaxDwell times the floor
SyntheticDwells ==
    {Field([c \in Cells |-> IF c = b THEN k ELSE 1], 10 * max_speed) :
        b \in Cells, k \in 1..MaxDwell}

TripInit ==
    /\ pc = "synthetic"
    /\ synthetic_dwell \in SyntheticDwells
    /\ beam_profile \in FlatBeams \ {ZeroBeam}
    /\ regularization \in Regularizations
    /\ DepthIdle
    /\ dwell_time = <<>>
    /\ transition_width = 0
    /\ velocity_map = <<>>
    /\ recipe = <<>>
    /\ simulated_etch_depth = <<>>
    /\ validated_thickness_map = <<>>
    /\ validated_file = <<>>
    /\ validated_map = <<>>
    /\ runs = 0
    /\ convolve_result = <<>>
    /\ uniformity_threshold = 0
    /\ file_data = <<>>
    /\ true_original_count = 0
    /\ all_removed_indices = <<>>
    /\ current_data = <<>>
    /\ new_data = <<>>
    /\ iteration = 0
    /\ removed_min_count = 0
    /\ phase = "none"
    /\ reason = ""
    /\ resims = 0
    /\ unity = -1
    /\ UiIdle
    /\ NameIdle

\* conv_engine.convolve_matrix(D0, I)
ForwardConvolve ==
    /\ pc = "synthetic"
    /\ pc' = "forward"
    /\ simulated_etch_depth' = convolve_matrix(synthetic_dwell, beam_profile)
    /\ UNCHANGED <<uniformity_threshold, file_data, true_original_count,
                   all_removed_indices, current_data, new_data, iteration,
                   removed_min_count, phase, reason, resims, unity>>
    /\ UNCHANGED depthVars
    /\ UNCHANGED <<beam_profile, regularization, dwell_time, transition_width,
                   velocity_map, recipe, validated_thickness_map,
                   validated_file, validated_map, synthetic_dwell, runs,
                   convolve_result>>
    /\ UNCHANGED uiVars
    /\ UNCHANGED nameVars

\* calculate_dwell_time(regularization) with the forward result as the etch
\* depth (here a rational field)
Deconvolve ==
    /\ pc = "forward"
    /\ pc' = "solved"
    /\ etching_depth_map' = simulated_etch_depth
    /\ dwell_time' = calculate_dwell_time(simulated_etch_depth, beam_profile,
                                          regularization)
    /\ UNCHANGED <<uniformity_threshold, file_data, true_original_count,
                   all_removed_indices, current_data, new_data, iteration,
                   removed_min_count, phase, reason, resims, unity>>
    /\ UNCHANGED <<initial_thickness_map, initial_thickness_stats, target_thickness>>
    /\ UNCHANGED <<beam_profile, regularization, transition_width, velocity_map,
                   recipe, simulated_etch_depth, validated_thickness_map,
                   validated_file, validated_map, synthetic_dwell, runs,
                   convolve_result>>
    /\ UNCHANGED uiVars
    /\ UNCHANGED nameVars

TripNext == ForwardConvolve \/ Deconvolve

SpecTrip == TripInit /\ [][TripNext]_vars

----------------------------------------------------------------------------
(* IonBeamProcessor.calculate_velocity_map and generate_trajectory_recipe. *)
(*                                                                         *)
(* Velocities, distances and weights are binary floating-point numbers:    *)
(* MantissaBits significant bits, round to nearest, ties to even, and a    *)
(* smallest step of 2^-FracBits.  A float is written as its count of       *)
(* steps (a natural number), so 1.0 is Unit.                               *)

RECURSIVE Pow2(_)
Pow2(n) == IF n = 0 THEN 1 ELSE 2 * Pow2(n - 1)

Unit == Pow2(FracBits)

RECURSIVE BitLength(_)
\* the number of bits of the natural number n
BitLength(n) == IF n = 0 THEN 0 ELSE 1 + BitLength(n \div 2)

\* the integer nearest to n / d, ties to the even one (n >= 0, d > 0)
RoundNearestEven(n, d) ==
    LET q == n \div d
        r == n % d
    IN IF 2 * r > d \/ (2 * r = d /\ q % 2 = 1) THEN q + 1 ELSE q

\* the float nearest to q + r / d steps (0 <= r < d): q + r / d is rounded
\* to MantissaBits significant bits, ties to even
FlQuotient(q, r, d) ==
    LET e  == BitLength(q)
        s  == Pow2(e - MantissaBits)
        hi == q \div s
        lo == q % s
    IN IF e <= MantissaBits
       THEN (IF 2 * r > d \/ (2 * r = d /\ q % 2 = 1) THEN q + 1 ELSE q)
       ELSE IF \/ 2 * lo > s
               \/ (2 * lo = s /\ r > 0)
               \/ (2 * lo = s /\ r = 0 /\ hi % 2 = 1)
            THEN (hi + 1) * s
            ELSE hi * s

\* the float nearest to n / d steps
Fl(n, d) == FlQuotient(n \div d, n % d, d)

RECURSIVE ISqrt(_)
\* the largest k with k * k <= v
ISqrt(v) ==
    IF v < 4
    THEN (IF v = 0 THEN 0 ELSE 1)
    ELSE LET r == 2 * ISqrt(v \div 4)
         IN IF (r + 1) * (r + 1) <= v THEN r + 1 ELSE r

\* np.sqrt of the integer s, correctly rounded: the root is taken to a
\* quarter of a step, and marked as inexact when it is
FSqrt(s) ==
    LET v == s * Unit * Unit * 16
        k == ISqrt(v)
    IN IF k * k = v THEN Fl(k, 4) ELSE Fl(2 * k + 1, 8)

\* self.min_speed = 0.01 (mm/s), as a float
min_speed == Fl(Unit, 100)

\* self.max_speed as a float
MaxSpeed == max_speed * Unit

\* self.wafer_radius as a float
WaferRadius == wafer_radius * Unit

\* self.r_distance = np.sqrt(self.X**2 + self.Y**2)
r_distance == [c \in Cells |-> FSqrt(X(c) * X(c) + Y(c) * Y(c))]

\* np.clip(v, self.min_speed, self.max_speed)
Clip(v) == IF v < min_speed THEN min_speed ELSE IF v > MaxSpeed THEN MaxSpeed ELSE v

\* np.divide(1.0, dwell, out=np.full_like(dwell, max_speed), where=dwell > 1e-6)
\* for the dwell time num / den seconds
InverseDwell(num, den) ==
    IF num > 0 /\ den \div num < 1000000
    THEN FlQuotient((den \div num) * Unit + ((den % num) * Unit) \div num,
                    ((den % num) * Unit) % num, num)
    ELSE MaxSpeed

\* variant: the outer region starts two transition widths from the wafer
outer_mask_wide(width) ==
    {c \in Cells : r_distance[c] > Fl(WaferRadius + 2 * width, 1)}

\* outer_mask = self.r_distance > self.wafer_radius + transition_width
outer_mask(width) ==
    {c \in Cells : r_distance[c] > Fl(WaferRadius + width, 1)}

\* transition_mask = (r_distance > wafer_radius) & (r_distance <= wafer_radius + transition_width)
transition_mask(width) ==
    {c \in Cells : /\ r_distance[c] > WaferRadius
                   /\ r_distance[c] <= Fl(WaferRadius + width, 1)}

\* weight = (self.r_distance[transition_mask] - self.wafer_radius) / transition_width
Weight(c, width) == Fl(Fl(r_distance[c] - WaferRadius, 1) * Unit, width)

\* (1 - weight) * velocity[transition_mask] + weight * self.max_speed
Blend(weight, v) ==
    Fl(Fl(Fl(Unit - weight, 1) * v, Unit) + Fl(weight * MaxSpeed, Unit), 1)

\* calculate_velocity_map(): the new velocity_map
calculate_velocity_map(dwell, width) ==
    LET velocity == [c \in Cells |-> Clip(InverseDwell(dwell.num[c], dwell.den))]
        outer == outer_mask(width)
        transition == transition_mask(width)
    IN [c \in Cells |->
          IF c \in transition THEN Blend(Weight(c, width), IF c \in outer THEN MaxSpeed ELSE velocity[c])
          ELSE IF c \in outer THEN MaxSpeed
          ELSE velocity[c]]

\* f"{speed:.6f}": the speed in millionths of a mm/s, of a float of v steps
SpeedText(v) ==
    (v \div Unit) * 1000000 + RoundNearestEven((v % Unit) * 1000000, Unit)

\* the points of generate_trajectory_recipe in the order of its loops over
\* i and j: (self.X[i, j], self.Y[i, j], clamped speed)
RecipePoints(velocity) ==
    [k \in 1..(n_pixels * n_pixels) |->
        LET c == <<((k - 1) \div n_pixels) + 1, ((k - 1) % n_pixels) + 1>>
        IN <<X(c), Y(c), SpeedText(Clip(velocity[c]))>>]

\* variant: ascending Y
KeyLess_ascending(p, q) ==
    p[2] < q[2] \/ (p[2] = q[2] /\ p[1] < q[1])

\* key=lambda p: (-p[1], p[0]): p sorts before q
KeyLess(p, q) ==
    (0 - p[2]) < (0 - q[2]) \/ (p[2] = q[2] /\ p[1] < q[1])

\* points.sort(key=...): a stable sort
SortPoints(points) ==
    LET Rank(i) == Cardinality({j \in DOMAIN points :
                        \/ KeyLess(points[j], points[i])
                        \/ (~KeyLess(points[i], points[j]) /\ j < i)})
    IN [k \in DOMAIN points |->
          points[CHOOSE i \in DOMAIN points : Rank(i) = k - 1]]

\* dwell times, in units of 0.1 / max_speed: none, the floor, 20 floors
\* (250 mm/s) and 200 seconds (below min_speed)
DwellSteps == {0, 1, 20, 2000 * max_speed}

\* dwell fields that are uniform but for at most one cell
VelocityDwells ==
    {Field([c \in Cells |-> IF c = b THEN v ELSE base], 10 * max_speed) :
        base \in DwellSteps, b \in Cells, v \in DwellSteps}

\* transition widths in quarters of a mm: 0, 0.25, 1 and 2.25 mm
TransitionWidths == {q * (Unit \div 4) : q \in {0, 1, 4, 9}}

\* a processor holding a dwell-time field
VelInit ==
    /\ pc = "dwell"
    /\ dwell_time \in VelocityDwells
    /\ transition_width \in TransitionWidths
    /\ DepthIdle
    /\ beam_profile = <<>>
    /\ regularization = <<>>
    /\ velocity_map = <<>>
    /\ recipe = <<>>
    /\ simulated_etch_depth = <<>>
    /\ validated_thickness_map = <<>>
    /\ validated_file = <<>>
    /\ validated_map = <<>>
    /\ synthetic_dwell = <<>>
    /\ runs = 0
    /\ convolve_result = <<>>
    /\ uniformity_threshold = 0
    /\ file_data = <<>>
    /\ true_original_count = 0
    /\ all_removed_indices = <<>>
    /\ current_data = <<>>
    /\ new_data = <<>>
    /\ iteration = 0
    /\ removed_min_count = 0
    /\ phase = "none"
    /\ reason = ""
    /\ resims = 0
    /\ unity = -1
    /\ UiIdle
    /\ NameIdle

\* self.calculate_velocity_map()
CalculateVelocityMap ==
    /\ pc = "dwell"
    /\ pc' = "velocity"
    /\ velocity_map' = calculate_velocity_map(dwell_time, transition_width)
    /\ UNCHANGED <<uniformity_threshold, file_data, true_original_count,
                   all_removed_indices, current_data, new_data, iteration,
                   removed_min_count, phase, reason, resims, unity>>
    /\ UNCHANGED depthVars
    /\ UNCHANGED <<beam_profile, regularization, dwell_time, transition_width,
                   recipe, simulated_etch_depth, validated_thickness_map,
                   validated_file, validated_map, synthetic_dwell, runs,
                   convolve_result>>
    /\ UNCHANGED uiVars
    /\ UNCHANGED nameVars

\* self.generate_trajectory_recipe(filename): the rows are written unless the
\* file cannot be opened (the exception is logged)
GenerateTrajectoryRecipe ==
    /\ pc = "velocity"
    /\ \E opened \in BOOLEAN :
          IF opened
          THEN /\ pc' = "recipe"
               /\ recipe' = SortPoints(RecipePoints(velocity_map))
          ELSE /\ pc' = "recipe_failed"
               /\ recipe' = <<>>
    /\ UNCHANGED <<uniformity_threshold, file_data, true_original_count,
                   all_removed_indices, current_data, new_data, iteration,
                   removed_min_count, phase, reason, resims, unity>>
    /\ UNCHANGED depthVars
    /\ UNCHANGED <<beam_profile, regularization, dwell_time, transition_width,
                   velocity_map, simulated_etch_depth, validated_thickness_map,
                   validated_file, validated_map, synthetic_dwell, runs,
                   convolve_result>>
    /\ UNCHANGED uiVars
    /\ UNCHANGED nameVars

VelNext == CalculateVelocityMap \/ GenerateTrajectoryRecipe

SpecVel == VelInit /\ [][VelNext]_vars

----------------------------------------------------------------------------
(* IonBeamProcessor.process_etching_simulation: one run of the pipeline on *)
(* a processor, repeated on the same processor by the refinement re-runs.  *)
(* A CSV file holds decimal text: a cell of a file is a count of 1e-5.     *)

RECURSIVE Decimals(_, _, _, _)
\* q + r / d carried to k more decimal digits: <<quotient, remainder>>
Decimals(q, r, d, k) ==
    IF k = 0 THEN <<q, r>>
    ELSE Decimals(q * 10 + (r * 10) \div d, (r * 10) % d, d, k - 1)

\* float_format='%.5f' of the value num / den (>= 0): its count of 1e-5
Fixed5(num, den) ==
    LET qr == Decimals(num \div den, num % den, den, 5)
    IN IF 2 * qr[2] > den \/ (2 * qr[2] = den /\ qr[1] % 2 = 1)
       THEN qr[1] + 1
       ELSE qr[1]

RECURSIVE Pow10(_)
Pow10(n) == IF n = 0 THEN 1 ELSE 10 * Pow10(n - 1)

RECURSIVE DecLength(_)
\* the number of decimal digits of n
DecLength(n) == IF n < 10 THEN 1 ELSE 1 + DecLength(n \div 10)

\* generate_heatmap's CSV cell of the value n * 1e-5 (n >= 0), as read back:
\* f"{val:.4e}" when abs(val) < 0.001 or abs(val) > 1000, f"{val:.6f}" otherwise
EtchText(n) ==
    IF (n < 100 \/ n > 100000000) /\ DecLength(n) > 5
    THEN RoundNearestEven(n, Pow10(DecLength(n) - 5)) * Pow10(DecLength(n) - 5)
    ELSE n

\* save_dwell_time_map(dwell_path) read by load_dwell_time_matrix
save_dwell_time_map(dwell) ==
    Field([c \in Cells |-> Fixed5(dwell.num[c], dwell.den)], 100000)

\* convolve_dwell_time() when nothing raises: the new simulated_etch_depth
\* (the raw beam of the file is the array the beam grid was made of)
convolve_dwell_time(dwell, raw_ion_beam) ==
    LET etch_depth == convolve_matrix(save_dwell_time_map(dwell), raw_ion_beam)
    IN Field([c \in Cells |-> EtchText(etch_depth.num[c])], etch_depth.den)

\* np.zeros_like(self.X): what convolve_dwell_time returns from its except
\* branch (line 906)
ZerosLikeX == Field([c \in Cells |-> 0], 1)

\* get_validated_thickness_map(): None (<<>>) without a simulated depth
get_validated_thickness_map(initial, simulated) ==
    IF initial = <<>> \/ simulated = <<>>
    THEN <<>>
    ELSE Field([c \in Cells |->
                   IF c \in wafer_mask
                   THEN initial[c] * simulated.den - simulated.num[c]
                   ELSE initial[c] * simulated.den], simulated.den)

\* save_thickness_map(file, "validated"): self.validated_thickness_map after
\* the call; it is computed only when it is missing or None
CachedValidated(cached, initial, simulated) ==
    IF cached = <<>>
    THEN get_validated_thickness_map(initial, simulated)
    ELSE cached

\* df.to_csv(filename, float_format='%.5f'): the cells of the file written
\* (<<>>: no file, the call returned False)
ThicknessFile(data) ==
    IF data = <<>> THEN <<>>
    ELSE [c \in Cells |-> Fixed5(data.num[c], data.den)]

\* thickness files of the runs: uniform but for the centre
RunMaps ==
    {UniformBut(base, KernelCentre, v) :
        base \in (MaxThk - 1)..MaxThk, v \in (MaxThk - 1)..MaxThk}

\* beam files of the runs
RunBeams == {ZeroBeam, PointBeam(KernelCentre, 1), PointBeam(<<1, 1>>, MaxBeam)}

\* run_simulation: a new processor with the target set
RunInit ==
    /\ pc = "processor"
    /\ target_thickness \in Targets
    /\ transition_width = Unit
    /\ initial_thickness_map = <<>>
    /\ initial_thickness_stats = <<>>
    /\ etching_depth_map = <<>>
    /\ beam_profile = <<>>
    /\ regularization = <<>>
    /\ dwell_time = <<>>
    /\ velocity_map = <<>>
    /\ recipe = <<>>
    /\ simulated_etch_depth = <<>>
    /\ validated_thickness_map = <<>>
    /\ validated_file = <<>>
    /\ validated_map = <<>>
    /\ synthetic_dwell = <<>>
    /\ runs = 0
    /\ convolve_result = <<>>
    /\ uniformity_threshold = 0
    /\ file_data = <<>>
    /\ true_original_count = 0
    /\ all_removed_indices = <<>>
    /\ current_data = <<>>
    /\ new_data = <<>>
    /\ iteration = 0
    /\ removed_min_count = 0
    /\ phase = "none"
    /\ reason = ""
    /\ resims = 0
    /\ unity = -1
    /\ UiIdle
    /\ NameIdle

\* processor.process_etching_simulation(etching_file, beam_file, output_dir),
\* the first run and the re-runs of restart_simulation_with_optimized_data on
\* the same processor.  convolved: convolve_dwell_time did not raise (when it
\* raises, the exception is logged, simulated_etch_depth is not assigned and
\* the call returns zeros, which the pipeline does not look at)
ProcessEtchingSimulation ==
    /\ pc \in {"processor", "ran", "ran_unvalidated"}
    /\ runs < MaxRuns
    /\ \E thickness_grid \in RunMaps, beam \in RunBeams, convolved \in BOOLEAN :
          LET stats     == calculate_thickness_stats(thickness_grid)
              depth     == calculate_etching_depth(thickness_grid, stats,
                                                   target_thickness)
              dwell     == calculate_dwell_time(Field(depth, 1), beam, <<1, 1000>>)
              velocity  == calculate_velocity_map(dwell, transition_width)
              simulated == IF convolved
                           THEN convolve_dwell_time(dwell, beam)
                           ELSE simulated_etch_depth
              cached    == CachedValidated(validated_thickness_map,
                                           thickness_grid, simulated)
          IN /\ initial_thickness_map' = thickness_grid
             /\ initial_thickness_stats' = stats
             /\ etching_depth_map' = depth
             /\ beam_profile' = beam
             /\ regularization' = <<1, 1000>>
             /\ dwell_time' = dwell
             /\ velocity_map' = velocity
             /\ simulated_etch_depth' = simulated
             /\ convolve_result' = IF convolved THEN simulated ELSE ZerosLikeX
             /\ validated_thickness_map' = cached
             /\ validated_file' = ThicknessFile(cached)
             /\ recipe' = SortPoints(RecipePoints(velocity))
             /\ validated_map' = get_validated_thickness_map(thickness_grid,
                                                             simulated)
             /\ pc' = IF convolved THEN "ran" ELSE "ran_unvalidated"
    /\ runs' = runs + 1
    /\ UNCHANGED <<target_thickness, transition_width, synthetic_dwell>>
    /\ UNCHANGED <<uniformity_threshold, file_data, true_original_count,
                   all_removed_indices, current_data, new_data, iteration,
                   removed_min_count, phase, reason, resims, unity>>
    /\ UNCHANGED uiVars
    /\ UNCHANGED nameVars

RunNext == ProcessEtchingSimulation

SpecRun == RunInit /\ [][RunNext]_vars

----------------------------------------------------------------------------
(* calculate_thickness_stats called on its own: the map and the wafer mask *)
(* of the processor are drawn in the initial state.                        *)

\* the cells of a processor with a 2 x 2 grid, all inside its wafer
FourCells == (1..2) \X (1..2)

\* the thickness maps and masks of the calls: four masked cells of 100 or
\* 150 nm; the grid of the model with its wafer mask, the map uniform but for
\* one cell; and no map at all (None)
StatsInputs ==
    {<<m, FourCells>> : m \in [FourCells -> {100, 150}]}
    \cup {<<UniformBut(base, b, v), wafer_mask>> :
              base \in 0..MaxThk, b \in Cells, v \in 0..MaxThk}
    \cup {<< <<>>, wafer_mask >>}

StatsInit ==
    /\ pc = "stats_call"
    /\ \E input \in StatsInputs : stats_map = input[1] /\ stats_mask = input[2]
    /\ stats_result = <<>>
    /\ uniformity_threshold = 0
    /\ file_data = <<>>
    /\ true_original_count = 0
    /\ all_removed_indices = <<>>
    /\ current_data = <<>>
    /\ new_data = <<>>
    /\ iteration = 0
    /\ removed_min_count = 0
    /\ phase = "none"
    /\ reason = ""
    /\ resims = 0
    /\ unity = -1
    /\ DepthIdle
    /\ SolveIdle
    /\ GridIdle
    /\ NameIdle
    /\ LoadIdle
    /\ ThreadIdle
    /\ BatchIdle

\* self.calculate_thickness_stats(thickness_map)
CalculateThicknessStats ==
    /\ pc = "stats_call"
    /\ pc' = "stats_done"
    /\ stats_result' = ThicknessStats(stats_map, stats_mask)
    /\ UNCHANGED <<stats_map, stats_mask>>
    /\ UNCHANGED gridVars
    /\ UNCHANGED nameVars
    /\ UNCHANGED <<uniformity_threshold, file_data, true_original_count,
                   all_removed_indices, current_data, new_data, iteration,
                   removed_min_count, phase, reason, resims, unity>>
    /\ UNCHANGED depthVars
    /\ UNCHANGED solveVars
    /\ UNCHANGED loadVars
    /\ UNCHANGED threadVars
    /\ UNCHANGED batchVars

StatsNext == CalculateThicknessStats

SpecStats == StatsInit /\ [][StatsNext]_vars

----------------------------------------------------------------------------
(* IonBeamProcessor.__init__: the grid axis.  Lengths are in units of      *)
(* 0.5 mm; a coordinate is the rational num / den of that unit.            *)

\* point_count = int(grid_size / resolution) + 1
point_count(size, step) == (size \div step) + 1

\* np.linspace(-grid_size/2, grid_size/2, count): count evenly spaced
\* values, the one value -grid_size/2 for count = 1
linspace(size, count) ==
    IF count = 1
    THEN [num |-> <<0 - size>>, den |-> 2]
    ELSE [num |-> [i \in 1..count |-> 2 * (i - 1) * size - size * (count - 1)],
          den |-> 2 * (count - 1)]

GridInit ==
    /\ pc = "grid_call"
    /\ grid_size \in 1..MaxGridSize
    /\ resolution \in 1..MaxResolution
    /\ axis = <<>>
    /\ uniformity_threshold = 0
    /\ file_data = <<>>
    /\ true_original_count = 0
    /\ all_removed_indices = <<>>
    /\ current_data = <<>>
    /\ new_data = <<>>
    /\ iteration = 0
    /\ removed_min_count = 0
    /\ phase = "none"
    /\ reason = ""
    /\ resims = 0
    /\ unity = -1
    /\ DepthIdle
    /\ SolveIdle
    /\ StatsIdle
    /\ NameIdle
    /\ LoadIdle
    /\ ThreadIdle
    /\ BatchIdle

\* IonBeamProcessor(grid_size=..., resolution=...)
ConstructProcessor ==
    /\ pc = "grid_call"
    /\ pc' = "constructed"
    /\ axis' = linspace(grid_size, point_count(grid_size, resolution))
    /\ UNCHANGED <<grid_size, resolution>>
    /\ UNCHANGED <<uniformity_threshold, file_data, true_original_count,
                   all_removed_indices, current_data, new_data, iteration,
                   removed_min_count, phase, reason, resims, unity>>
    /\ UNCHANGED depthVars
    /\ UNCHANGED solveVars
    /\ UNCHANGED statsVars
    /\ UNCHANGED nameVars
    /\ UNCHANGED loadVars
    /\ UNCHANGED threadVars
    /\ UNCHANGED batchVars

GridNext == ConstructProcessor

SpecGrid == GridInit /\ [][GridNext]_vars

----------------------------------------------------------------------------
(* Loading a scattered thickness table.  A table is the header line of the *)
(* file and the kinds of its data rows; every line has three cells.        *)

\* header lines: the expected names, names of another tool, a 'value'
\* column, and no names the loaders know
Headers == {<<"x", "y", "thickness">>, <<"X", "Y", "Thickness(nm)">>,
            <<"x", "y", "THK">>, <<"x", "y", "value">>, <<"a", "b", "c">>}

\* a data row: three numbers; two numbers and a thickness cell that is not
\* a number; no cell a number
RowKinds == {"numeric", "text_thickness", "text"}

Tables == {[header |-> h, rows |-> r] : h \in Headers, r \in SeqsUpTo(RowKinds, MaxRows)}

\* cell j of a row of this kind parses as a number
NumericCell(kind, j) == kind = "numeric" \/ (kind = "text_thickness" /\ j # 3)

\* df.apply(pd.to_numeric, errors='coerce').dropna(): the rows that stay
UsableRows(t) == {i \in DOMAIN t.rows : \A j \in 1..3 : NumericCell(t.rows[i], j)}

\* what a loader hands on: the columns taken as x, y and thickness, the rows
\* kept and the interpolation method used, or the error raised
Loaded(columns, rows, method) ==
    [status |-> "ok", columns |-> columns, rows |-> rows, method |-> method,
     error |-> ""]

LoadError(error) ==
    [status |-> "error", columns |-> <<>>, rows |-> {}, method |-> "",
     error |-> error]

\* load_wafer_data(file_path)
load_wafer_data(t) ==
    IF Cardinality(UsableRows(t)) < 3
    THEN LoadError("At least 3 valid data points required")
    ELSE Loaded(<<1, 2, 3>>, UsableRows(t), "")

\* col.lower() of the column names of Headers
Lower(name) == IF name = "X" THEN "x" ELSE IF name = "Y" THEN "y" ELSE name

\* pd.api.types.is_numeric_dtype(df[col]) or
\* all(isinstance(x, (int, float)) for x in df[col].head(3)): a column with a
\* cell that is not a number holds strings only; all() of no rows is True
IsNumericColumn(t, j) == \A i \in DOMAIN t.rows : NumericCell(t.rows[i], j)

\* load_etching_data: thickness_col (lines 313-343), a column name
thickness_col(t) ==
    LET names   == Range(t.header)
        numeric == {j \in DOMAIN t.header : IsNumericColumn(t, j)}
    IN IF "Thickness(nm)" \in names THEN "Thickness(nm)"
       ELSE IF "Thickness" \in names THEN "Thickness"
       ELSE IF "thickness" \in names THEN "thickness"
       ELSE IF "value" \in names THEN "THKs"
       ELSE IF numeric # {} THEN t.header[MinOf(numeric)]
       ELSE t.header[3]

\* load_etching_data: x_col, y_col (lines 345-359): the first column whose
\* lower-case name is the given one, 0 for None
NamedColumn(t, name) ==
    LET found == {j \in DOMAIN t.header : Lower(t.header[j]) = name}
    IN IF found = {} THEN 0 ELSE MinOf(found)

\* the position of the column with this name, 0 if there is none
ColumnOf(t, name) ==
    LET found == {j \in DOMAIN t.header : t.header[j] = name}
    IN IF found = {} THEN 0 ELSE MinOf(found)

Methods == {"rbf", "cubic", "linear", "nearest"}

\* load_etching_data, lines 385-423: the method whose result is used,
\* "error" when an exception leaves the function
Interpolate(extend, raising) ==
    IF extend
    THEN IF "rbf" \notin raising THEN "rbf"
         ELSE IF "linear" \notin raising THEN "linear"
         ELSE "error"
    ELSE IF "cubic" \notin raising THEN "cubic"
         ELSE IF "linear" \notin raising THEN "linear"
         ELSE IF "nearest" \notin raising THEN "nearest"
         ELSE "error"

\* load_etching_data(file_path) up to the interpolated grid
load_etching_data(t, extend, raising) ==
    LET x_col  == NamedColumn(t, "x")
        y_col  == NamedColumn(t, "y")
        thk    == ColumnOf(t, thickness_col(t))
        method == Interpolate(extend, raising)
    IN IF x_col = 0 \/ y_col = 0 THEN LoadError("ValueError: X, Y columns")
       ELSE IF thk = 0 THEN LoadError("KeyError")
       ELSE IF method = "error" THEN LoadError("interpolation")
       ELSE Loaded(<<x_col, y_col, thk>>, DOMAIN t.rows, method)

\* the methods that raise whatever the sample positions are: RBF with the
\* thin-plate spline and the two triangulating methods need three samples
\* and numbers; no method works on no sample
MustRaise(t) ==
    LET columns == {NamedColumn(t, "x"), NamedColumn(t, "y"),
                    ColumnOf(t, thickness_col(t))} \ {0}
        numbers == \A j \in columns : IsNumericColumn(t, j)
    IN (IF Len(t.rows) < 3 \/ ~numbers THEN {"rbf", "cubic", "linear"} ELSE {})
       \cup (IF Len(t.rows) = 0 THEN {"nearest"} ELSE {})

LoadInit ==
    /\ pc = "load_call"
    /\ table \in Tables
    /\ extend_edge \in BOOLEAN
    /\ raises \in {r \in SUBSET Methods : MustRaise(table) \subseteq r}
    /\ wafer_load = <<>>
    /\ etching_load = <<>>
    /\ uniformity_threshold = 0
    /\ file_data = <<>>
    /\ true_original_count = 0
    /\ all_removed_indices = <<>>
    /\ current_data = <<>>
    /\ new_data = <<>>
    /\ iteration = 0
    /\ removed_min_count = 0
    /\ phase = "none"
    /\ reason = ""
    /\ resims = 0
    /\ unity = -1
    /\ DepthIdle
    /\ SolveIdle
    /\ StatsIdle
    /\ GridIdle
    /\ NameIdle
    /\ ThreadIdle
    /\ BatchIdle

\* load_wafer_data(file_path) on the file of the table
LoadWaferData ==
    /\ pc = "load_call"
    /\ wafer_load = <<>>
    /\ wafer_load' = load_wafer_data(table)
    /\ UNCHANGED <<table, extend_edge, raises, etching_load>>
    /\ UNCHANGED loopVars
    /\ UNCHANGED depthVars
    /\ UNCHANGED solveVars
    /\ UNCHANGED statsVars
    /\ UNCHANGED gridVars
    /\ UNCHANGED nameVars
    /\ UNCHANGED threadVars
    /\ UNCHANGED batchVars

\* processor.load_etching_data(file_path) on the file of the table
LoadEtchingTable ==
    /\ pc = "load_call"
    /\ etching_load = <<>>
    /\ etching_load' = load_etching_data(table, extend_edge, raises)
    /\ UNCHANGED <<table, extend_edge, raises, wafer_load>>
    /\ UNCHANGED loopVars
    /\ UNCHANGED depthVars
    /\ UNCHANGED solveVars
    /\ UNCHANGED statsVars
    /\ UNCHANGED gridVars
    /\ UNCHANGED nameVars
    /\ UNCHANGED threadVars
    /\ UNCHANGED batchVars

LoadNext == LoadWaferData \/ LoadEtchingTable

SpecLoad == LoadInit /\ [][LoadNext]_vars

----------------------------------------------------------------------------
(* Single-wafer mode of the front end: the start button and the threads    *)
(* that execute pipeline runs.  A handler runs on the UI thread when the    *)
(* thread of a run has emitted its signal; each handler is one step.        *)

\* restart_simulation_with_optimized_data(new_file_path, new_data): starts a
\* CustomSimulationThread on self.processor, next to the executing ones;
\* the button is not touched
RestartSimulationWithOptimizedData(executing) ==
    /\ custom_threads' = executing + 1
    /\ started' = started + 1
    /\ resims' = resims + 1

\* outlier_processor.handle_simulation_completed(results, unity_msg,
\* validated_stats): when the uniformity misses the threshold and the user
\* and the data budget allow a removal, the reduced dataset is re-run through
\* the callback set before the call; otherwise nothing is started
HandleSimulationCompleted(u, executing) ==
    \E rerun \in BOOLEAN :
        IF u > uniformity_threshold /\ rerun /\ started < MaxStarts
        THEN RestartSimulationWithOptimizedData(executing)
        ELSE /\ custom_threads' = executing
             /\ UNCHANGED <<started, resims>>

UiInit ==
    /\ pc = "single_wafer"
    /\ uniformity_threshold \in 0..MaxUnity
    /\ process_btn = TRUE
    /\ sim_threads = 0
    /\ custom_threads = 0
    /\ started = 0
    /\ file_data = <<>>
    /\ true_original_count = 0
    /\ all_removed_indices = <<>>
    /\ current_data = <<>>
    /\ new_data = <<>>
    /\ iteration = 0
    /\ removed_min_count = 0
    /\ phase = "none"
    /\ reason = ""
    /\ resims = 0
    /\ unity = -1
    /\ DepthIdle
    /\ SolveIdle
    /\ StatsIdle
    /\ GridIdle
    /\ LoadIdle
    /\ NameIdle
    /\ BatchIdle

UiUnchanged ==
    /\ UNCHANGED <<pc, uniformity_threshold, file_data, true_original_count,
                   all_removed_indices, current_data, new_data, iteration,
                   removed_min_count, phase, reason>>
    /\ UNCHANGED depthVars
    /\ UNCHANGED solveVars
    /\ UNCHANGED statsVars
    /\ UNCHANGED gridVars
    /\ UNCHANGED loadVars
    /\ UNCHANGED nameVars
    /\ UNCHANGED batchVars

\* run_simulation(): the start button is clicked, which an enabled button
\* allows; the user confirms where asked
RunSimulation ==
    /\ pc = "single_wafer"
    /\ process_btn
    /\ started < MaxStarts
    /\ process_btn' = FALSE
    /\ sim_threads' = sim_threads + 1
    /\ started' = started + 1
    /\ UNCHANGED <<custom_threads, resims, unity>>
    /\ UiUnchanged

\* on_simulation_complete(results): the SimulationThread of a run has
\* finished and emitted results_ready
OnSimulationComplete ==
    /\ pc = "single_wafer"
    /\ sim_threads > 0
    /\ \E u \in 0..MaxUnity :
          /\ unity' = u
          /\ HandleSimulationCompleted(u, custom_threads)
    /\ sim_threads' = sim_threads - 1
    /\ process_btn' = TRUE
    /\ UiUnchanged

\* on_simulation_error(error_message): a thread of either class has emitted
\* error_occurred
OnSimulationError ==
    /\ pc = "single_wafer"
    /\ \/ /\ sim_threads > 0
          /\ sim_threads' = sim_threads - 1
          /\ UNCHANGED custom_threads
       \/ /\ custom_threads > 0
          /\ custom_threads' = custom_threads - 1
          /\ UNCHANGED sim_threads
    /\ process_btn' = TRUE
    /\ UNCHANGED <<started, resims, unity>>
    /\ UiUnchanged

\* on_optimized_simulation_completed(results): the CustomSimulationThread of
\* a re-run has finished and emitted results_ready
OnOptimizedSimulationCompleted ==
    /\ pc = "single_wafer"
    /\ custom_threads > 0
    /\ \E u \in 0..MaxUnity :
          /\ unity' = u
          /\ IF u > uniformity_threshold
             THEN /\ HandleSimulationCompleted(u, custom_threads - 1)
                  /\ UNCHANGED process_btn
             ELSE /\ custom_threads' = custom_threads - 1
                  /\ process_btn' = TRUE
                  /\ UNCHANGED <<started, resims>>
    /\ UNCHANGED sim_threads
    /\ UiUnchanged

UiNext ==
    \/ RunSimulation
    \/ OnSimulationComplete
    \/ OnSimulationError
    \/ OnOptimizedSimulationCompleted

SpecUi == UiInit /\ [][UiNext]_vars

----------------------------------------------------------------------------
(* Batch processing of the front end: the files of the batch are run one   *)
(* after the other; each handler is one step.                               *)

\* the thickness files a batch can be made of
BatchFiles == {Path("lot", "w1", <<>>), Path("lot", "w2", <<>>), Path("lot", "w3", <<>>)}

\* file_dialog.selectedFiles(): at least one file, none twice
SelectedFiles ==
    {list \in SeqsUpTo(BatchFiles, MaxBatch) :
        Len(list) >= 1 /\ Cardinality(Range(list)) = Len(list)}

\* finish_batch_processing()
FinishBatchProcessing(index) ==
    /\ pc' = "batch_idle"
    /\ current_batch_index' = index
    /\ etching_file' = etching_file

\* process_next_batch_file() with self.current_batch_index = index and
\* self.etching_file = file: the thread of the next file is started
ProcessNextBatchFile(list, index, file) ==
    IF index >= Len(list)
    THEN /\ pc' = "batch_idle"
         /\ current_batch_index' = index
         /\ etching_file' = file
    ELSE /\ pc' = "batch_run"
         /\ current_batch_index' = index
         /\ etching_file' = IF file = <<>> THEN list[index + 1] ELSE file

\* next_batch_file_or_finish()
NextBatchFileOrFinish ==
    LET index == current_batch_index + 1
    IN IF index < Len(batch_file_list)
       THEN \E reply \in BOOLEAN :
              IF reply
              THEN ProcessNextBatchFile(batch_file_list, index, etching_file)
              ELSE FinishBatchProcessing(index)
       ELSE FinishBatchProcessing(index)

\* restart_batch_simulation_with_optimized_data(new_file_path, new_data): a
\* CustomSimulationThread re-runs the current file's reduced dataset
RestartBatchSimulationWithOptimizedData ==
    /\ pc' = "batch_run"
    /\ resims' = resims + 1
    /\ UNCHANGED <<current_batch_index, etching_file>>

\* outlier_processor.handle_simulation_completed(results, ...) in batch
\* mode: on a failed uniformity check a removal may be re-run through the
\* callback; otherwise the file is completed and the batch goes on
HandleBatchSimulationCompleted(u) ==
    \E rerun \in BOOLEAN :
        IF u > uniformity_threshold /\ rerun
        THEN RestartBatchSimulationWithOptimizedData
        ELSE /\ NextBatchFileOrFinish
             /\ UNCHANGED resims

BatchInit ==
    /\ pc = "batch_idle"
    /\ uniformity_threshold \in 0..MaxUnity
    /\ etching_file \in {<<>>} \cup EtchingFiles
    /\ true_original_file = <<>>
    /\ original_file = <<>>
    /\ written = <<>>
    /\ batch_file_list = <<>>
    /\ current_batch_index = 0
    /\ results_original_file = <<>>
    /\ handovers = 0
    /\ file_data = <<>>
    /\ true_original_count = 0
    /\ all_removed_indices = <<>>
    /\ current_data = <<>>
    /\ new_data = <<>>
    /\ iteration = 0
    /\ removed_min_count = 0
    /\ phase = "none"
    /\ reason = ""
    /\ resims = 0
    /\ unity = -1
    /\ DepthIdle
    /\ SolveIdle
    /\ StatsIdle
    /\ GridIdle
    /\ LoadIdle
    /\ ThreadIdle

BatchUnchanged ==
    /\ UNCHANGED <<uniformity_threshold, file_data, true_original_count,
                   all_removed_indices, current_data, new_data, iteration,
                   removed_min_count, phase, reason>>
    /\ UNCHANGED <<true_original_file, original_file, written>>
    /\ UNCHANGED depthVars
    /\ UNCHANGED solveVars
    /\ UNCHANGED statsVars
    /\ UNCHANGED gridVars
    /\ UNCHANGED loadVars
    /\ UNCHANGED threadVars

\* start_batch_processing(): the user selects the files and confirms
StartBatchProcessing ==
    /\ pc = "batch_idle"
    /\ \E selected_files \in SelectedFiles :
          /\ batch_file_list' = selected_files
          /\ ProcessNextBatchFile(selected_files, 0,
                 IF etching_file = <<>> THEN selected_files[1] ELSE etching_file)
    /\ UNCHANGED <<results_original_file, handovers, resims, unity>>
    /\ BatchUnchanged

\* on_batch_simulation_complete(results): the thread of the current file's
\* run or re-run has finished and emitted results_ready
OnBatchSimulationComplete ==
    /\ pc = "batch_run"
    /\ handovers < MaxHandovers
    /\ results_original_file' = etching_file
    /\ handovers' = handovers + 1
    /\ \E u \in 0..MaxUnity :
          /\ unity' = u
          /\ HandleBatchSimulationCompleted(u)
    /\ UNCHANGED batch_file_list
    /\ BatchUnchanged

\* on_batch_simulation_error(error_message): the thread has emitted
\* error_occurred
OnBatchSimulationError ==
    /\ pc = "batch_run"
    /\ \E reply \in BOOLEAN :
          IF reply
          THEN NextBatchFileOrFinish
          ELSE FinishBatchProcessing(current_batch_index)
    /\ UNCHANGED <<batch_file_list, results_original_file, handovers, resims, unity>>
    /\ BatchUnchanged

BatchNext ==
    \/ StartBatchProcessing
    \/ OnBatchSimulationComplete
    \/ OnBatchSimulationError

SpecBatch == BatchInit /\ [][BatchNext]_vars

----------------------------------------------------------------------------
(* Properties of the refinement loop *)

\* the state of a stage that has been called and has returned or raised
StageRan == pc \in {"resim", "exit", "error"}

\* C1 (as claimed): the working sample count never falls below 0.8 x the
\* original count, and a minimum-value round whose removal would take the
\* count below that floor removes nothing and ends with the current result.
C1_FloorRefusesRemoval ==
    /\ pc = "resim" => 5 * Len(new_data) >= 4 * true_original_count
    /\ ( /\ phase = "min"
         /\ StageRan
         /\ 5 * (Len(current_data) - 1) < 4 * true_original_count )
       => (pc = "exit" /\ new_data = <<>> /\ resims = 0)

\* C2 (as claimed): reaching the 20-iteration cap ends the loop normally,
\* with the current result, not with an error.
C2_CapEndsNormally ==
    (iteration > max_iterations /\ Stopped) => pc = "exit"

\* C3: a first run whose uniformity is <= the threshold ends the run with no
\* stage entered and nothing removed; a stage is entered only when the
\* uniformity is above the threshold, and then it is the IQR stage, at
\* iteration 1, on the sample set of the original file.
C3_LoopEntry ==
    [][pc = "initial_sim" =>
         IF unity' <= uniformity_threshold
         THEN /\ pc' = "done"
              /\ phase' = "none"
              /\ new_data' = <<>>
              /\ all_removed_indices' = <<>>
              /\ resims' = 0
         ELSE phase' # "none" =>
                 /\ phase' = "iqr"
                 /\ iteration' = 1
                 /\ current_data' = file_data
                 /\ true_original_count' = Len(file_data)]_vars

\* the loop was entered at iteration 1 and the first round removed samples
C3_Witness ==
    /\ pc = "resim"
    /\ phase = "iqr"
    /\ iteration = 1
    /\ unity > uniformity_threshold
    /\ current_data = file_data
    /\ Len(new_data) < Len(file_data)

\* C4 (as claimed): an IQR round that finds no outlier, and is not declined,
\* enters the minimum-value stage with a removal count of 0 on the same
\* sample set.
C4_NoOutliersToMinStage ==
    ( /\ StageRan
      /\ iteration \in 1..max_iterations
      /\ DetectOutliersIqr(current_data) = {}
      /\ reason # "no_outliers" )
    => (phase = "min" /\ removed_min_count = 0 /\ pc # "error")

\* C5 (as claimed): IQR removal is performed at most 20 times, and entering
\* the IQR stage with iteration > 20 removes nothing and, unless declined,
\* moves to the minimum-value stage.
C5_CapToMinStage ==
    /\ phase = "iqr" => resims <= max_iterations
    /\ (StageRan /\ iteration > max_iterations /\ reason # "iter_cap")
       => (phase = "min" /\ pc # "error")

\* C6 (as claimed): a minimum-value round that proceeds hands on the sample
\* set without its lowest-thickness sample, everything else unchanged and in
\* order, and the pipeline is re-run on it.
C6_RemovesLowest ==
    ( /\ phase = "min"
      /\ StageRan
      /\ removed_min_count < max_min_removals
      /\ Len(current_data) > 0
      /\ 5 * Len(current_data) >= 4 * true_original_count
      /\ reason \notin {"declined", "save_failed"} )
    => /\ pc = "resim"
       /\ \E i \in DOMAIN current_data :
            /\ \A j \in DOMAIN current_data : current_data[i] <= current_data[j]
            /\ new_data = [k \in 1..(Len(current_data) - 1) |->
                             IF k < i THEN current_data[k] ELSE current_data[k + 1]]

\* C7: once 50 minimum-value removals have been made the stage removes
\* nothing more, accepts the current result and stops; a re-run started by
\* the stage never carries more than the 50th removal.
C7_MinRemovalCap ==
    /\ (phase = "min" /\ removed_min_count >= max_min_removals)
       => (pc = "exit" /\ reason = "min_cap" /\ new_data = <<>> /\ resims = 0)
    /\ (phase = "min" /\ pc = "resim") => removed_min_count + 1 <= max_min_removals
    /\ (phase = "min" /\ reason = "min_cap") => removed_min_count >= max_min_removals

\* the stage was called after exactly 50 removals on a non-empty sample set
C7_Witness ==
    /\ phase = "min"
    /\ pc = "exit"
    /\ reason = "min_cap"
    /\ removed_min_count = max_min_removals
    /\ Len(current_data) > 0
    /\ ~ (5 * Len(current_data) < 4 * true_original_count)

\* the sorted values of s
C8_Sorted(s) ==
    [k \in 1..Len(s) |->
        CHOOSE v \in Range(s) :
            /\ Cardinality({i \in DOMAIN s : s[i] < v}) < k
            /\ Cardinality({i \in DOMAIN s : s[i] <= v}) >= k]

\* 4 x the quartile q (1 or 3) of s, by linear interpolation between the
\* sorted values around position q (n - 1) / 4
C8_Quartile4(s, q) ==
    LET sorted == C8_Sorted(s)
        whole  == (q * (Len(s) - 1)) \div 4
        part   == (q * (Len(s) - 1)) % 4
    IN IF part = 0 THEN 4 * sorted[whole + 1]
       ELSE (4 - part) * sorted[whole + 1] + part * sorted[whole + 2]

\* the samples of s inside [Q1 - 1.5 IQR, Q3 + 1.5 IQR], in order
C8_Inliers(s) ==
    LET q1 == C8_Quartile4(s, 1)
        q3 == C8_Quartile4(s, 3)
    IN SelectSeq(s, LAMBDA v : /\ 8 * v >= 2 * q1 - 3 * (q3 - q1)
                               /\ 8 * v <= 2 * q3 + 3 * (q3 - q1))

\* C8: an IQR round that proceeds re-runs the pipeline on exactly the samples
\* of the round's current set that lie inside [Q1 - 1.5 IQR, Q3 + 1.5 IQR],
\* the quartiles being those of that current set; the others are kept in order.
C8_IqrRemoval ==
    (pc = "resim" /\ phase = "iqr") =>
        /\ Len(current_data) >= 4
        /\ new_data = C8_Inliers(current_data)
        /\ Len(new_data) < Len(current_data)

\* a second round removed samples from a set that is already reduced
C8_Witness ==
    /\ pc = "resim"
    /\ phase = "iqr"
    /\ iteration = 2
    /\ Len(current_data) < Len(file_data)
    /\ Len(new_data) < Len(current_data)

----------------------------------------------------------------------------
(* Properties of the target etch depth *)

\* C9 (as claimed): every cell of the etch-depth field is >= 0, the cells
\* outside the wafer mask included.
C9_DepthNonNegative ==
    etching_depth_map # <<>> => \A c \in Cells : etching_depth_map[c] >= 0

\* C10: with m the minimum thickness over the wafer mask, the depth of every
\* cell is thickness - target if target < m, and max(thickness - target, 0)
\* otherwise.
C10_TwoBranchDepth ==
    etching_depth_map # <<>> =>
        LET m == MinOf({initial_thickness_map[c] : c \in wafer_mask})
            d(c) == initial_thickness_map[c] - target_thickness
        IN \A c \in Cells :
              etching_depth_map[c] =
                 IF target_thickness < m THEN d(c)
                 ELSE IF d(c) >= 0 THEN d(c) ELSE 0

\* the target lies inside the thickness range of the wafer: a cell below the
\* target gets 0, a cell above it is etched
C10_Witness ==
    /\ etching_depth_map # <<>>
    /\ \E c \in wafer_mask : initial_thickness_map[c] <= target_thickness
    /\ \E c \in Cells : /\ initial_thickness_map[c] < target_thickness
                        /\ etching_depth_map[c] = 0
    /\ \E c \in Cells : etching_depth_map[c] > 0

----------------------------------------------------------------------------
(* Properties of the dwell-time solver *)

\* the value of cell c of a rational field is at least the rational r
CellAtLeast(f, c, r) == f.num[c] * r[2] >= r[1] * f.den

\* the value of cell c of a rational field equals the rational r
CellEquals(f, c, r) == f.num[c] * r[2] = r[1] * f.den

\* C11: every cell of the dwell-time field returned by calculate_dwell_time
\* is >= 0.1 / max_speed, whatever the etch depth, the beam and the
\* regularization
C11_DwellFloor ==
    dwell_time # <<>> =>
        \A c \in Cells : CellAtLeast(dwell_time, c, <<1, 10 * max_speed>>)

\* a solve that raised a negative deconvolved value to the floor and left a
\* larger one alone
C11_Witness ==
    /\ pc = "solved"
    /\ \E c \in Cells : etching_depth_map[c] < 0
    /\ \E c \in Cells : ~CellEquals(dwell_time, c, <<1, 10 * max_speed>>)
    /\ \E c \in Cells : CellEquals(dwell_time, c, <<1, 10 * max_speed>>)

\* C15: with a beam profile that is zero everywhere and a non-zero etch
\* depth, calculate_dwell_time returns (it does not raise) and every cell of
\* the result equals 0.1 / max_speed
C15_ZeroBeamFloor ==
    (/\ pc = "solved"
     /\ beam_profile = ZeroBeam
     /\ \E c \in Cells : etching_depth_map[c] # 0)
    => /\ dwell_time # <<>>
       /\ \A c \in Cells : CellEquals(dwell_time, c, <<1, 10 * max_speed>>)

C15_Witness ==
    /\ pc = "solved"
    /\ beam_profile = ZeroBeam
    /\ \E c \in Cells : etching_depth_map[c] > 0
    /\ dwell_time # <<>>

\* C16 (as claimed): when the thickness is uniformly the target inside the
\* wafer, the etch depth is zero on every wafer-mask cell and the dwell time
\* equals 0.1 / max_speed in every grid cell
C16_UniformInsideFloor ==
    (/\ pc = "solved"
     /\ \A c \in wafer_mask : initial_thickness_map[c] = target_thickness)
    => /\ \A c \in wafer_mask : etching_depth_map[c] = 0
       /\ \A c \in Cells : CellEquals(dwell_time, c, <<1, 10 * max_speed>>)

\* C16 (amended): when the thickness is uniformly the target inside the wafer
\* and nowhere above the target outside it, the etch depth is zero on every
\* wafer-mask cell and the dwell time equals 0.1 / max_speed in every grid cell
C16_UniformFloor ==
    (/\ pc = "solved"
     /\ \A c \in wafer_mask : initial_thickness_map[c] = target_thickness
     /\ \A c \in Cells \ wafer_mask : initial_thickness_map[c] <= target_thickness)
    => /\ \A c \in wafer_mask : etching_depth_map[c] = 0
       /\ \A c \in Cells : CellEquals(dwell_time, c, <<1, 10 * max_speed>>)

\* a solve with a beam on a grid at the target inside the wafer and below it
\* in a corner
C16_Witness ==
    /\ pc = "solved"
    /\ beam_profile # ZeroBeam
    /\ \A c \in wafer_mask : initial_thickness_map[c] = target_thickness
    /\ \E c \in Cells \ wafer_mask : initial_thickness_map[c] < target_thickness
    /\ \A c \in Cells : CellEquals(dwell_time, c, <<1, 10 * max_speed>>)

\* the 2-D convolution of a field with a kernel centred at KernelCentre:
\* out[q] = sum over p of D[p] * I[centre + q - p], zeros outside the field.
\* This is the forward model that the Wiener filter conj(F_I) / (|F_I|^2 + eps)
\* of calculate_dwell_time inverts (F_D * F_I = F_E as eps -> 0).
TrueConvolution(D, I) ==
    [q \in Cells |->
        SumOver([p \in Cells |->
                    D[p] * At(I, <<KernelCentre[1] + q[1] - p[1],
                                   KernelCentre[2] + q[2] - p[2]>>)],
                Cells)]

\* C13 (as claimed): convolve_matrix returns the true 2-D convolution of the
\* dwell matrix with the beam profile, zeros outside the matrix, same size:
\* the forward model that calculate_dwell_time inverts
C13_TrueConvolution ==
    pc \in {"forward", "solved"} =>
        /\ simulated_etch_depth.den = synthetic_dwell.den
        /\ simulated_etch_depth.num =
              TrueConvolution(synthetic_dwell.num, beam_profile)

\* the sum over the grid of the squared difference of two rational fields,
\* in units of 1 / f.den^2 (g.den divides f.den)
SquaredError(f, g) ==
    SumOver([c \in Cells |->
                (f.num[c] - g.num[c] * (f.den \div g.den)) *
                (f.num[c] - g.num[c] * (f.den \div g.den))],
            Cells)

\* a cell where a field of numerators is largest
IsPeak(num, c) == \A d \in Cells : num[d] <= num[c]

\* C14 (as claimed): forward-convolving a synthetic dwell field D0 (at or
\* above the floor) with the beam as the validator does, then deconvolving
\* the result with calculate_dwell_time, recovers a field that is close to D0
\* (its squared error is no larger than that of the all-zero field) and is not
\* displaced: it is largest where D0 is largest
C14_RoundTrip ==
    pc = "solved" =>
        /\ \A c \in Cells :
              IsPeak(synthetic_dwell.num, c) => IsPeak(dwell_time.num, c)
        /\ SquaredError(dwell_time, synthetic_dwell) <=
              SquaredError(Field([c \in Cells |-> 0], dwell_time.den),
                           synthetic_dwell)

----------------------------------------------------------------------------
(* Properties of the velocity map and of the stage recipe *)

\* the squared radial distance of a cell, in mm^2
RadiusSquared(c) == X(c) * X(c) + Y(c) * Y(c)

\* the cell lies farther than wafer_radius + transition_width from the centre
BeyondTransition(c) ==
    RadiusSquared(c) * Unit * Unit >
        (WaferRadius + transition_width) * (WaferRadius + transition_width)

\* the cell lies outside the wafer and within wafer_radius + transition_width
InAnnulus(c) ==
    /\ RadiusSquared(c) > wafer_radius * wafer_radius
    /\ ~BeyondTransition(c)

\* C12 (as claimed): every cell of the velocity field returned by
\* calculate_velocity_map lies in [min_speed, max_speed], the cells rewritten
\* by the outer-region and annulus steps included
C12_VelocityInRange ==
    velocity_map # <<>> =>
        \A c \in Cells : velocity_map[c] >= min_speed /\ velocity_map[c] <= MaxSpeed

\* C18: every cell farther than wafer_radius + transition_width from the
\* centre has velocity exactly max_speed, whatever its dwell time
C18_OuterMaxSpeed ==
    velocity_map # <<>> =>
        \A c \in Cells : BeyondTransition(c) => velocity_map[c] = MaxSpeed

\* a velocity map with a cell beyond the transition whose own dwell time
\* would give less than max_speed
C18_Witness ==
    /\ pc = "velocity"
    /\ \E c \in Cells :
          /\ BeyondTransition(c)
          /\ Clip(InverseDwell(dwell_time.num[c], dwell_time.den)) < MaxSpeed
          /\ velocity_map[c] = MaxSpeed

\* C19 (as claimed): in the annulus the velocity is the blend of the velocity
\* at the wafer edge with max_speed by the radial weight, so it depends on
\* the radial distance alone: two annulus cells at the same distance have
\* the same velocity
C19_RadialBlend ==
    velocity_map # <<>> =>
        \A c, d \in Cells :
            (InAnnulus(c) /\ InAnnulus(d) /\ RadiusSquared(c) = RadiusSquared(d))
            => velocity_map[c] = velocity_map[d]

\* C20: a written recipe has one row per grid cell, n x n rows, ordered by
\* descending Y and, within equal Y, ascending X: every raster line runs in
\* the same X direction
C20_RasterOrder ==
    recipe # <<>> =>
        /\ Len(recipe) = n_pixels * n_pixels
        /\ \A c \in Cells : \E k \in DOMAIN recipe :
              recipe[k][1] = X(c) /\ recipe[k][2] = Y(c)
        /\ \A k \in 1..(Len(recipe) - 1) :
              \/ recipe[k][2] > recipe[k + 1][2]
              \/ (recipe[k][2] = recipe[k + 1][2] /\ recipe[k][1] < recipe[k + 1][1])
        /\ \A k \in 1..(Len(recipe) - 1) :
              recipe[k][2] > recipe[k + 1][2] =>
                  /\ recipe[k][1] = grid_points[n_pixels]
                  /\ recipe[k + 1][1] = grid_points[1]

C20_Witness ==
    /\ pc = "recipe"
    /\ Len(recipe) > n_pixels
    /\ recipe[1][2] > recipe[Len(recipe)][2]
    /\ \E k \in DOMAIN recipe : recipe[k][3] # recipe[1][3]

----------------------------------------------------------------------------
(* Properties of the pipeline run *)

\* the initial thickness minus the simulated etch depth of the latest run on
\* the wafer mask, the initial thickness elsewhere, in units of 1 / den
ValidatedOfRun ==
    [c \in Cells |->
        IF c \in wafer_mask
        THEN initial_thickness_map[c] * simulated_etch_depth.den
                 - simulated_etch_depth.num[c]
        ELSE initial_thickness_map[c] * simulated_etch_depth.den]

\* C17 (as claimed): after every pipeline run on a processor, re-runs on the
\* same processor included, the validated thickness saved to the file and the
\* validated thickness whose statistics gate the refinement both equal this
\* run's initial thickness minus this run's simulated etch depth on the wafer
\* mask, and the initial thickness elsewhere
C17_ValidatedOfThisRun ==
    pc = "ran" =>
        /\ simulated_etch_depth.den = 100000
        /\ validated_file = ValidatedOfRun
        /\ validated_map = Field(ValidatedOfRun, simulated_etch_depth.den)

----------------------------------------------------------------------------
(* Properties of the thickness statistics *)

\* the masked values are two cells of 100 and two cells of 150
FourPointField ==
    /\ stats_map # <<>>
    /\ Cardinality(stats_mask) = 4
    /\ Cardinality({c \in stats_mask : stats_map[c] = 100}) = 2
    /\ Cardinality({c \in stats_mask : stats_map[c] = 150}) = 2

\* C21: the uniformity calculate_thickness_stats returns is
\* 100 * (max - min) / (2 * mean), with max, min and mean taken over exactly
\* the cells of the wafer mask (mean nonzero); for the masked values
\* 100, 100, 150, 150 it is 20
C21_Uniformity ==
    (pc = "stats_done" /\ stats_map # <<>>) =>
        LET u == stats_result.uniformity
            total == SumOfCells(stats_map, stats_mask)
            largest == CHOOSE c \in stats_mask :
                           \A d \in stats_mask : stats_map[d] <= stats_map[c]
            smallest == CHOOSE c \in stats_mask :
                            \A d \in stats_mask : stats_map[d] >= stats_map[c]
        IN /\ u[2] > 0
           /\ total # 0 =>
                 u[1] * 2 * total =
                     u[2] * 100 * (stats_map[largest] - stats_map[smallest])
                          * Cardinality(stats_mask)
           /\ FourPointField => u[1] = 20 * u[2]

C21_Witness ==
    /\ pc = "stats_done"
    /\ FourPointField
    /\ stats_result.uniformity[1] = 20 * stats_result.uniformity[2]
    /\ stats_result.mean[1] = 125 * stats_result.mean[2]

----------------------------------------------------------------------------
(* Properties of the grid axis *)

\* C22 (as claimed): for any grid size and resolution the axis has
\* floor(grid_size / resolution) + 1 points, starts at -grid_size / 2, ends
\* at +grid_size / 2, and adjacent points differ by exactly the resolution
C22_GridSpacing ==
    pc = "constructed" =>
        /\ Len(axis.num) = (grid_size \div resolution) + 1
        /\ 2 * axis.num[1] = (0 - grid_size) * axis.den
        /\ 2 * axis.num[Len(axis.num)] = grid_size * axis.den
        /\ \A i \in 1..(Len(axis.num) - 1) :
              axis.num[i + 1] - axis.num[i] = resolution * axis.den

----------------------------------------------------------------------------
(* Properties of the names of the reduced datasets *)

\* the suffixes one round appends: _error_deleted_{round}_time,
\* _min_removed_{count}, or both
RoundSuffixes(suffixes) ==
    LET IsRound(x) == x.kind = "error_deleted_time" /\ x.number \in 1..max_iterations
        IsCount(x) == x.kind = "min_removed" /\ x.number \in 1..max_min_removals
    IN \/ Len(suffixes) = 1 /\ (IsRound(suffixes[1]) \/ IsCount(suffixes[1]))
       \/ Len(suffixes) = 2 /\ IsRound(suffixes[1]) /\ IsCount(suffixes[2])

\* C23: every reduced dataset the refinement has written, in whatever round
\* and whatever file the stage was handed as original_file, lies in the
\* directory of the first file and is named by the base name of the first
\* file plus the suffix of one round, never by the name of a reduced file
C23_NamedFromOriginal ==
    \A k \in DOMAIN written :
        /\ written[k].directory = etching_file.directory
        /\ written[k].base_name = etching_file.base_name
        /\ RoundSuffixes(written[k].suffixes)

\* a second reduced dataset has been written by a stage that was handed the
\* first reduced dataset as its original_file
C23_Witness ==
    /\ Len(written) >= 2
    /\ original_file = written[1]
    /\ written[2].suffixes = <<Suffix("error_deleted_time", 2)>>

----------------------------------------------------------------------------
(* Properties of a failed save *)

\* the sample set the refinement works on: the file before the first round,
\* the reduced set while its re-run is under way and once that re-run has
\* met the threshold, and otherwise the set the stage entered last was
\* called on
WorkingSet ==
    IF phase = "none" THEN file_data
    ELSE IF pc \in {"resim", "done"} THEN new_data
    ELSE current_data

\* C27 (as claimed): a removal round whose save fails leaves the refinement
\* state as it was before the round: the working sample set is the same, the
\* cumulative removed-index list is unchanged and no re-run is started
C27_SaveFailureLeavesState ==
    [][(pc' = "exit" /\ reason' = "save_failed") =>
          /\ WorkingSet' = WorkingSet
          /\ all_removed_indices' = all_removed_indices
          /\ resims' = resims]_vars

----------------------------------------------------------------------------
(* Properties of the removed-index list *)

\* the positions (counted from 1) the cumulative list names
ListedPositions == {all_removed_indices[k] + 1 : k \in DOMAIN all_removed_indices}

\* C29 (as claimed): after any sequence of IQR rounds whose saves succeeded
\* the cumulative removed-index list has no duplicates, is as long as the
\* number of samples removed so far, and names positions of the original
\* dataset whose samples are exactly the ones absent from the working set
C29_RemovedIndices ==
    reason # "save_failed" =>
        /\ Cardinality(ListedPositions) = Len(all_removed_indices)
        /\ Len(all_removed_indices) = Len(file_data) - Len(WorkingSet)
        /\ ListedPositions \subseteq DOMAIN file_data
        /\ WorkingSet = MaskSelect(file_data, DOMAIN file_data \ ListedPositions)

----------------------------------------------------------------------------
(* Properties of the forward validation *)

\* C24 (as claimed): a call of convolve_dwell_time either signals a failure
\* to its caller (returns no field) or returns the complete simulated etch
\* depth of this run's dwell time and beam and has stored that same field in
\* the processor; it never returns a stand-in while the processor holds no
\* simulated depth or the one of an earlier run
C24_CompleteOrFailure ==
    pc \in {"ran", "ran_unvalidated"} =>
        \/ convolve_result = <<>>
        \/ /\ convolve_result = convolve_dwell_time(dwell_time, beam_profile)
           /\ simulated_etch_depth = convolve_result

----------------------------------------------------------------------------
(* Properties of table loading *)

\* the results of the loaders that have been called
LoadResults == {wafer_load, etching_load} \ {<<>>}

\* C25 (as claimed): a loader takes the first three columns as x, y and
\* thickness whatever the header names are and does not fail on the names;
\* it drops the rows that are not numeric; and with fewer than 3 usable
\* rows the load or the interpolation fails with an error
C25_TableLoading ==
    \A loaded \in LoadResults :
        /\ loaded.status = "ok" =>
              /\ loaded.columns = <<1, 2, 3>>
              /\ loaded.rows = UsableRows(table)
        /\ loaded.status = "error" =>
              loaded.error \in {"At least 3 valid data points required",
                                "interpolation"}
        /\ Cardinality(UsableRows(table)) < 3 => loaded.status = "error"

\* the first of the standard chain that does not raise
StandardChain(raising) ==
    IF "cubic" \notin raising THEN "cubic"
    ELSE IF "linear" \notin raising THEN "linear"
    ELSE IF "nearest" \notin raising THEN "nearest"
    ELSE "error"

\* C26 (as claimed): when the table's columns are found, extend mode is on
\* and RBF raises, the grid comes from the first of cubic, linear, nearest
\* that does not raise, and the load fails only if all three raise
C26_FallbackChain ==
    (/\ etching_load # <<>>
     /\ extend_edge
     /\ "rbf" \in raises
     /\ etching_load.error \notin {"ValueError: X, Y columns", "KeyError"}) =>
        IF StandardChain(raises) = "error"
        THEN etching_load.status = "error"
        ELSE /\ etching_load.status = "ok"
             /\ etching_load.method = StandardChain(raises)

----------------------------------------------------------------------------
(* Properties of the single-wafer front end *)

\* C28 (as claimed): in single-wafer mode at most one pipeline run is
\* executing at any time, and while the thread of a run is executing and its
\* completion or error handler has not finished the start button is disabled
C28_OneRunAtATime ==
    /\ sim_threads + custom_threads <= 1
    /\ sim_threads + custom_threads = 1 => ~process_btn

----------------------------------------------------------------------------
(* Properties of batch processing *)

\* C30 (as claimed): whenever the results of a run are handed to the outlier
\* processor during a batch, for the first file and for every later one,
\* results['original_etching_file'] is the batch file being processed
C30_BatchOriginalFile ==
    [][handovers' # handovers =>
          results_original_file' = batch_file_list[current_batch_index + 1]]_vars

====
